---- MODULE Spec2Model ----
(***************************************************************************)
(* ServiceNow MCP tool functions (catalog, natural language, table,        *)
(* records and schema tools) as a state machine.  One invocation at a time *)
(* runs from pc = "idle" to pc = "done"; every HTTP request an invocation  *)
(* issues is appended to reqs, and the remote answer of each request is    *)
(* drawn from Outcomes; answers keeps, for each request, the kind and the  *)
(* error text of its answer and, for a request of the record resolver,     *)
(* whether the answer carried a match.                                     *)
(*                                                                         *)
(* Strings are sequences of tokens: a token is one character, or a literal *)
(* chunk of an f-string that holds no '^'; every '^' is a token of its own.*)
(* An Optional value is a set with at most one element ({} is None).       *)
(***************************************************************************)
EXTENDS Integers, Sequences, FiniteSets, TLC

VARIABLES pc, tool, params, loc, reqs, answers, result, authHeaders

vars == <<pc, tool, params, loc, reqs, answers, result, authHeaders>>

(***************************** bounds **************************************)
\* longest result list a response carries
MaxRows == 2
\* longest item_ids list given to move_catalog_items
MaxItems == 2

(***************************** strings *************************************)
Rep(c, n) == [i \in 1..n |-> c]

SysIdLen == 32

HexChars == {"0", "1", "2", "3", "4", "5", "6", "7", "8", "9",
             "a", "b", "c", "d", "e", "f", "A", "B", "C", "D", "E", "F"}

\* the system-identifier shape: a 32-character hexadecimal token
IsSysId(s) == Len(s) = SysIdLen /\ \A i \in 1..Len(s) : s[i] \in HexChars

SysIdA == Rep("a", SysIdLen)
SysIdC == Rep("c", SysIdLen)
NonHex32 == Rep("g", SysIdLen)
Hex31 == Rep("a", SysIdLen - 1)
Item1 == <<"i", "t", "e", "m", "1">>
Laptop == <<"L", "a", "p">>
Inject == <<"x", "^", "ORactive=false">>

The(opt) == CHOOSE v \in opt : TRUE

\* Python truthiness of an Optional[str]
Truthy(opt) == opt # {} /\ opt # {<<>>}

\* sep.join(parts) for a sequence of strings
RECURSIVE Join(_, _)
Join(parts, sep) ==
  IF parts = <<>> THEN <<>>
  ELSE IF Len(parts) = 1 THEN parts[1]
  ELSE parts[1] \o sep \o Join(Tail(parts), sep)

\* the conditions the instance reads in an encoded query: it splits on '^'
NumCarets(q) == Cardinality({i \in 1..Len(q) : q[i] = "^"})
NumConditions(q) == NumCarets(q) + 1

(************************** remote answers *********************************)
RowA == [keys |-> {"sys_id", "name"}, sys_id |-> SysIdA, name |-> <<"incident">>,
         element |-> {}, mandatory |-> {}, read_only |-> {}, order |-> {}]
RowB == [keys |-> {"sys_id", "name"}, sys_id |-> Item1, name |-> <<"problem">>,
         element |-> {}, mandatory |-> {}, read_only |-> {}, order |-> {}]
RowEmpty == [keys |-> {}, sys_id |-> <<>>, name |-> <<>>,
             element |-> {}, mandatory |-> {}, read_only |-> {}, order |-> {}]

\* a row of item_option_new: order is an Optional string ({} when the row has
\* no such key)
VarRow(sys_id, order) ==
  [keys |-> {"sys_id", "order"} \ (IF order = {} THEN {"order"} ELSE {}), sys_id |-> sys_id,
   name |-> <<>>, element |-> {}, mandatory |-> {}, read_only |-> {}, order |-> order]

VarRows ==
  {VarRow(<<"var1">>, {<<"1", "0", "0">>}),
   VarRow(<<"var2">>, {<<"2", "0">>}),
   VarRow(<<"var3">>, {<<>>}),
   VarRow(<<"var4">>, {}),
   VarRow(<<"var5">>, {<<"x">>})}

VarRowLists == UNION {[1..n -> VarRows] : n \in 0..MaxRows}
Rows == {RowA, RowB, RowEmpty}

RowLists == UNION {[1..n -> Rows] : n \in 0..MaxRows}

\* a row of sys_dictionary: element, mandatory and read_only are Optional
\* strings ({} when the row has no such key)
DictRow(element, mandatory, read_only) ==
  [keys |-> {"element"}, sys_id |-> <<>>, name |-> <<>>,
   element |-> element, mandatory |-> mandatory, read_only |-> read_only, order |-> {}]

StrTrue == <<"t", "r", "u", "e">>
StrFalse == <<"f", "a", "l", "s", "e">>

DictRows ==
  {DictRow({<<"number">>}, {StrTrue}, {StrFalse}),
   DictRow({<<"number">>}, {StrFalse}, {}),
   DictRow({<<"state">>}, {<<"T", "r", "u", "e">>}, {StrTrue}),
   DictRow({<<>>}, {StrTrue}, {StrTrue}),
   [DictRow({}, {}, {}) EXCEPT !.keys = {"name"}]}

DictRowLists == UNION {[1..n -> DictRows] : n \in 0..MaxRows}

\* a 2xx answer whose JSON body holds "result" of the given shape:
\* "list" (rows), "dict" (rows[1], or {} when rows is empty), "null", or
\* "missing" (the body has no result key)
Ok(shape, rows) ==
  [kind |-> "ok", status |-> 200, hasResp |-> TRUE, text |-> "", shape |-> shape, rows |-> rows,
   httpTotal |-> {}, bodyTotal |-> {}]

\* the total number of matching rows a paged answer may carry: httpTotal is
\* the X-Total-Count header of the HTTP response, bodyTotal is the value under
\* body["headers"]["x-total-count"] (as an int, the way the response model
\* coerces it)
TotalCounts == {7}

CountedOutcomes ==
  UNION {{[Ok("list", rs) EXCEPT !.httpTotal = {t}], [Ok("list", rs) EXCEPT !.bodyTotal = {t}]}
           : rs \in {l \in RowLists : Len(l) = 1}, t \in TotalCounts}

OkOutcomes ==
  {Ok("list", rs) : rs \in RowLists}
    \cup {Ok("dict", <<>>)} \cup {Ok("dict", <<r>>) : r \in Rows \ {RowEmpty}}
    \cup {Ok("null", <<>>), Ok("missing", <<>>)}
    \cup CountedOutcomes

\* raise_for_status() raising HTTPError (with or without the response attached),
\* or requests raising another RequestException (connection error, timeout)
ErrOutcomes ==
  {[kind |-> "http", status |-> s, hasResp |-> h, text |-> "HTTP Error", shape |-> "none", rows |-> <<>>,
      httpTotal |-> {}, bodyTotal |-> {}]
     : s \in {404, 500}, h \in BOOLEAN}
    \cup {[kind |-> "conn", status |-> 0, hasResp |-> FALSE, text |-> "API Error", shape |-> "none", rows |-> <<>>,
            httpTotal |-> {}, bodyTotal |-> {}]}

Outcomes == OkOutcomes \cup ErrOutcomes

\* the answers to the item_option_new request
VariableOutcomes == Outcomes \cup {Ok("list", rs) : rs \in VarRowLists}

\* the answers to the sys_dictionary request
SchemaOutcomes == Outcomes \cup {Ok("list", rs) : rs \in DictRowLists}

IsOk(o) == o.kind = "ok"

\* Python truthiness of body["result"]
ResultTruthy(o) == IsOk(o) /\ o.shape \in {"list", "dict"} /\ o.rows # <<>>

(***************************** requests ************************************)
Timeout == 30

ProviderHeaders == {"Authorization"}

\* one HTTP request to /api/now/table/<table>[/<id>]: query (sysparm_query),
\* lim (sysparm_limit), off (sysparm_offset), body (json=) and timeout are
\* Optional; extra holds the other query parameters as <<name, value>> pairs
ReqX(step, method, table, id, query, lim, off, extra, body, timeout, headers) ==
  [step |-> step, method |-> method, table |-> table, id |-> id, query |-> query,
   lim |-> lim, off |-> off, extra |-> extra, body |-> body, timeout |-> timeout,
   headers |-> headers]

Req(step, method, table, id, query, lim, off, body, timeout, headers) ==
  ReqX(step, method, table, id, query, lim, off, {}, body, timeout, headers)

(***************************** results *************************************)
NoData == [isNone |-> TRUE, keys |-> {}]
Data(keys) == [isNone |-> FALSE, keys |-> keys]

NoResult ==
  [returned |-> FALSE, raised |-> FALSE, exc |-> "", keys |-> {}, success |-> FALSE,
   message |-> <<>>, data |-> NoData, rows |-> <<>>, n |-> 0, updated |-> FALSE,
   query_used |-> <<>>, limit |-> {}, offset |-> {}, name |-> <<>>, fields |-> {}]

\* a returned mapping or response object with the given top-level keys
Return(keys, success, message, data, rows, n) ==
  [returned |-> TRUE, raised |-> FALSE, exc |-> "", keys |-> keys, success |-> success,
   message |-> message, data |-> data, rows |-> rows, n |-> n, updated |-> FALSE,
   query_used |-> <<>>, limit |-> {}, offset |-> {}, name |-> <<>>, fields |-> {}]

\* a page of a listing: limit=params.limit, offset=params.offset
Paged(r, p) == [r EXCEPT !.limit = {p.limit}, !.offset = {p.offset}]

\* a returned mapping of the update tools: "updated": True
Updated(keys, message) == [Return(keys, TRUE, message, NoData, <<>>, 0) EXCEPT !.updated = TRUE]

\* an exception that leaves the tool function
Raise(exc) == [NoResult EXCEPT !.raised = TRUE, !.exc = exc]

CatalogKeys == {"success", "message", "data"}

CatalogResponse(success, message, data) == Return(CatalogKeys, success, message, data, <<>>, 0)

\* no resolver call made yet
NoRes == [called |-> FALSE, success |-> FALSE, has_record |-> FALSE, record |-> RowEmpty,
          message |-> <<>>]

\* get_catalog_item_variables not called yet, or not yet back
NoVars == [called |-> FALSE, raised |-> FALSE, value |-> <<>>]

\* the locals of an invocation: res and vres are the results of its latest
\* resolver call (vres: the call made inside get_catalog_item_variables)
NoLoc ==
  [rec |-> RowEmpty, cat |-> RowEmpty, i |-> 0, success_count |-> 0, failed_items |-> <<>>,
   res |-> NoRes, vres |-> NoRes, vars |-> NoVars]

\* what is kept of an answer: its kind and error text and, when the caller
\* reads the first record of the result, whether there is one and its sys_id
AnswerRecord(o, read) ==
  [kind |-> o.kind, text |-> o.text, status |-> 0, httpTotal |-> {}, bodyTotal |-> {},
   shape |-> "", rows |-> <<>>,
   truthy |-> read /\ ResultTruthy(o),
   first |-> IF read /\ ResultTruthy(o) /\ "sys_id" \in o.rows[1].keys
             THEN o.rows[1].sys_id ELSE <<>>]

\* the answer to the request just issued, if one was issued
Answer(o) ==
  answers' = IF Len(reqs') > Len(reqs) THEN Append(answers, AnswerRecord(o, FALSE)) ELSE answers

\* the answer to the resolver's request
ResolverAnswer(o) == answers' = Append(answers, AnswerRecord(o, TRUE))

\* the answer to a lookup request whose first record the tool reads
LookupAnswer(o) ==
  answers' = IF Len(reqs') > Len(reqs) THEN Append(answers, AnswerRecord(o, TRUE)) ELSE answers

\* the answer to the request of get_record, which reads the result and, of a
\* failed request, the status
RecordAnswer(o) == answers' = Append(answers, [AnswerRecord(o, TRUE) EXCEPT !.status = o.status])

\* the answer to the request of a paged listing, which may carry a total
PagedAnswer(o) ==
  answers' = Append(answers, [AnswerRecord(o, FALSE) EXCEPT !.httpTotal = o.httpTotal,
                                                            !.bodyTotal = o.bodyTotal])

\* the answer to a request of get_table_schema, which reads its rows
SchemaAnswer(o) ==
  answers' = Append(answers, [AnswerRecord(o, TRUE) EXCEPT !.shape = o.shape, !.rows = o.rows])

NoParams == [none |-> TRUE]

(************************** auth provider **********************************)
\* auth_manager.get_headers(): the provider hands out its header mapping
get_headers == authHeaders

(************************** parameter sets *********************************)
Limits == {10}
Offsets == {0, 5}
FilterValues == {{}, {<<>>}, {<<"h", "w">>}, {Inject}}

ListCatalogItemsParams ==
  [limit : Limits, offset : Offsets, category : FilterValues, query : FilterValues,
   active : BOOLEAN]

ListCatalogCategoriesParams ==
  [limit : Limits, offset : Offsets, query : FilterValues, active : BOOLEAN]

(************************** list_catalog_items *****************************)
CatalogExtra ==
  {<<"sysparm_display_value", <<"true">>>>, <<"sysparm_exclude_reference_link", <<"true">>>>}

\* the filters as they would be if the category condition came first
ListCatalogItemsFiltersCategoryFirst(p) ==
  (IF Truthy(p.category) THEN << <<"category=">> \o The(p.category) >> ELSE <<>>)
    \o (IF p.active THEN << <<"active=true">> >> ELSE <<>>)
    \o (IF Truthy(p.query)
        THEN << <<"short_descriptionLIKE">> \o The(p.query) \o <<"^", "ORnameLIKE">> \o The(p.query) >>
        ELSE <<>>)

ListCatalogItemsFilters(p) ==
  (IF p.active THEN << <<"active=true">> >> ELSE <<>>)
    \o (IF Truthy(p.category) THEN << <<"category=">> \o The(p.category) >> ELSE <<>>)
    \o (IF Truthy(p.query)
        THEN << <<"short_descriptionLIKE">> \o The(p.query) \o <<"^", "ORnameLIKE">> \o The(p.query) >>
        ELSE <<>>)

ListCatalogItemsQuery(p) ==
  IF ListCatalogItemsFilters(p) # <<>> THEN {Join(ListCatalogItemsFilters(p), <<"^">>)} ELSE {}

ListKeys(payload) == {"success", "message", payload, "total", "limit", "offset"}

\* the handling of one list answer shared in shape by the two list tools:
\* only RequestException is caught
ListResult(o, payload, errPrefix, okPrefix) ==
  IF ~IsOk(o)
  THEN Return(ListKeys(payload), FALSE, <<errPrefix, o.text>>, NoData, <<>>, 0)
  ELSE IF o.shape = "missing"
  THEN Return(ListKeys(payload), TRUE, <<okPrefix, ToString(0)>>, NoData, <<>>, 0)
  ELSE IF o.shape = "null"
  THEN Raise("TypeError")
  ELSE IF o.shape = "dict"
  THEN IF o.rows = <<>>
       THEN Return(ListKeys(payload), TRUE, <<okPrefix, ToString(0)>>, NoData, <<>>, 0)
       ELSE Raise("AttributeError")
  ELSE Return(ListKeys(payload), TRUE, <<okPrefix, ToString(Len(o.rows))>>, NoData, o.rows, Len(o.rows))

list_catalog_items(p, o) ==
  /\ pc = "idle"
  /\ LET headers == get_headers \cup {"Accept"}
     IN /\ authHeaders' = headers
        /\ reqs' = <<ReqX("list", "GET", "sc_cat_item", <<>>, ListCatalogItemsQuery(p),
                          {p.limit}, {p.offset}, CatalogExtra, {}, {}, headers)>>
  /\ result' = ListResult(o, "items", "Error listing catalog items: ", "Retrieved catalog items: ")
  /\ tool' = "list_catalog_items"
  /\ params' = p
  /\ pc' = "done"
  /\ Answer(o)
  /\ UNCHANGED loc

(************************ list_catalog_categories **************************)
ListCatalogCategoriesFilters(p) ==
  (IF p.active THEN << <<"active=true">> >> ELSE <<>>)
    \o (IF Truthy(p.query)
        THEN << <<"titleLIKE">> \o The(p.query) \o <<"^", "ORdescriptionLIKE">> \o The(p.query) >>
        ELSE <<>>)

ListCatalogCategoriesQuery(p) ==
  IF ListCatalogCategoriesFilters(p) # <<>>
  THEN {Join(ListCatalogCategoriesFilters(p), <<"^">>)} ELSE {}

list_catalog_categories(p, o) ==
  /\ pc = "idle"
  /\ LET headers == get_headers \cup {"Accept"}
     IN /\ authHeaders' = headers
        /\ reqs' = <<ReqX("list", "GET", "sc_category", <<>>, ListCatalogCategoriesQuery(p),
                          {p.limit}, {p.offset}, CatalogExtra, {}, {}, headers)>>
  /\ result' = ListResult(o, "categories", "Error listing catalog categories: ",
                          "Retrieved catalog categories: ")
  /\ tool' = "list_catalog_categories"
  /\ params' = p
  /\ pc' = "done"
  /\ Answer(o)
  /\ UNCHANGED loc

(*************************** record resolver *******************************)
\* the resolver as it would be if it queried the natural key for every identifier
ResolveReqByName(step, table_name, record_id, name_field) ==
  Req(step, "GET", table_name, <<>>, {<<name_field, "=">> \o record_id}, {1}, {}, {}, {Timeout},
      get_headers)

\* get_record_by_id_or_name: the one request it issues, routed on the
\* identifier's shape
ResolveReq(step, table_name, record_id, name_field) ==
  IF IsSysId(record_id)
  THEN Req(step, "GET", table_name, record_id, {}, {}, {}, {}, {Timeout}, get_headers)
  ELSE Req(step, "GET", table_name, <<>>, {<<name_field, "=">> \o record_id}, {1}, {}, {}, {Timeout},
           get_headers)

\* the resolver as it would be if it reported an empty answer as a success
ResolveResultLenient(record_id, o) ==
  IF ~IsOk(o)
  THEN [called |-> TRUE, success |-> FALSE, has_record |-> FALSE, record |-> RowEmpty,
        message |-> <<"Error retrieving record: ", o.text>>]
  ELSE [called |-> TRUE, success |-> TRUE, has_record |-> ResultTruthy(o),
        record |-> IF ResultTruthy(o) THEN o.rows[1] ELSE RowEmpty, message |-> <<>>]

\* get_record_by_id_or_name: the normalized result for the answer o
ResolveResult(record_id, o) ==
  IF ~IsOk(o)
  THEN [called |-> TRUE, success |-> FALSE, has_record |-> FALSE, record |-> RowEmpty,
        message |-> <<"Error retrieving record: ", o.text>>]
  ELSE IF ResultTruthy(o)
  THEN [called |-> TRUE, success |-> TRUE, has_record |-> TRUE, record |-> o.rows[1],
        message |-> <<>>]
  ELSE [called |-> TRUE, success |-> FALSE, has_record |-> FALSE, record |-> RowEmpty,
        message |-> <<"Record not found: ">> \o record_id]

Resolved(r) == r.success /\ r.has_record

ItemIds == {SysIdA, Laptop, Hex31, NonHex32}
CategoryIds == {SysIdC, <<"H", "w">>}

(**************************** get_catalog_item *****************************)
GetCatalogItemParams == [item_id : ItemIds]

GetCatalogItemNotFound(p) ==
  CatalogResponse(FALSE, <<"Catalog item not found: ">> \o p.item_id, NoData)

\* get_catalog_item as it would be without the check of the resolver's result
get_catalog_item_unchecked(p, o) ==
  /\ pc = "idle"
  /\ tool' = "get_catalog_item"
  /\ params' = p
  /\ reqs' = <<ResolveReq("resolve", "sc_cat_item", p.item_id, "name")>>
  /\ LET r == ResolveResult(p.item_id, o)
     IN IF "sys_id" \notin r.record.keys
        THEN result' = Raise("KeyError") /\ pc' = "done" /\ loc' = [loc EXCEPT !.res = r]
        ELSE /\ loc' = [loc EXCEPT !.rec = r.record, !.res = r]
             /\ pc' = "get_catalog_item_variables"
             /\ UNCHANGED result
  /\ ResolverAnswer(o)
  /\ UNCHANGED authHeaders

\* the first step: resolve the item; a record without sys_id raises KeyError,
\* which the handler (RequestException only) lets through
get_catalog_item(p, o) ==
  /\ pc = "idle"
  /\ tool' = "get_catalog_item"
  /\ params' = p
  /\ reqs' = <<ResolveReq("resolve", "sc_cat_item", p.item_id, "name")>>
  /\ LET r == ResolveResult(p.item_id, o)
     IN IF ~Resolved(r)
        THEN result' = GetCatalogItemNotFound(p) /\ pc' = "done" /\ loc' = [loc EXCEPT !.res = r]
        ELSE IF "sys_id" \notin r.record.keys
        THEN result' = Raise("KeyError") /\ pc' = "done" /\ loc' = [loc EXCEPT !.res = r]
        ELSE /\ loc' = [loc EXCEPT !.rec = r.record, !.res = r]
             /\ pc' = "get_catalog_item_variables"
             /\ UNCHANGED result
  /\ ResolverAnswer(o)
  /\ UNCHANGED authHeaders

GetCatalogItemOk(variables) ==
  [CatalogResponse(TRUE, <<"Retrieved catalog item: ">>, Data({"item"})) EXCEPT !.rows = variables]

\* get_catalog_item_variables returned the list value
VarsReturned(value) == [called |-> TRUE, raised |-> FALSE, value |-> value]

\* get_catalog_item_variables resolves the item again by its sys_id; every
\* failure there yields [] and get_catalog_item goes on
get_catalog_item_variables(o) ==
  /\ pc = "get_catalog_item_variables"
  /\ reqs' = Append(reqs, ResolveReq("variables_resolve", "sc_cat_item", loc.rec.sys_id, "name"))
  /\ LET r == ResolveResult(loc.rec.sys_id, o)
     IN IF ~Resolved(r) \/ "sys_id" \notin r.record.keys
        THEN /\ result' = GetCatalogItemOk(<<>>)
             /\ pc' = "done"
             /\ loc' = [loc EXCEPT !.vres = r, !.vars = VarsReturned(<<>>)]
        ELSE /\ loc' = [loc EXCEPT !.cat = r.record, !.vres = r]
             /\ pc' = "item_option_new"
             /\ UNCHANGED result
  /\ ResolverAnswer(o)
  /\ UNCHANGED <<tool, params, authHeaders>>

DigitSeq == <<"0", "1", "2", "3", "4", "5", "6", "7", "8", "9">>

\* int(s) succeeds for a string s (here: a non-empty run of decimal digits)
IsIntLiteral(s) == s # <<>> /\ \A i \in 1..Len(s) : \E d \in 1..10 : DigitSeq[d] = s[i]

RECURSIVE IntOf(_)
IntOf(s) ==
  IF s = <<>> THEN 0
  ELSE 10 * IntOf(SubSeq(s, 1, Len(s) - 1))
         + (CHOOSE d \in 0..9 : DigitSeq[d + 1] = s[Len(s)])

\* int(x.get("order", 0)) does not raise
OrderIsInt(row) == row.order = {} \/ IsIntLiteral(The(row.order))

\* int(x.get("order", 0))
OrderKey(row) == IF row.order = {} THEN 0 ELSE IntOf(The(row.order))

\* list.sort(key=...) is stable: row goes after the rows whose key is not greater
RECURSIVE InsertByOrder(_, _)
InsertByOrder(sorted, row) ==
  IF sorted = <<>> THEN <<row>>
  ELSE IF OrderKey(sorted[Len(sorted)]) <= OrderKey(row) THEN Append(sorted, row)
  ELSE Append(InsertByOrder(SubSeq(sorted, 1, Len(sorted) - 1), row), sorted[Len(sorted)])

RECURSIVE SortByOrder(_)
SortByOrder(rows) ==
  IF rows = <<>> THEN <<>>
  ELSE InsertByOrder(SortByOrder(SubSeq(rows, 1, Len(rows) - 1)), rows[Len(rows)])

\* the variables as they would be if a failing sort left the list as it was
VariablesKeptOnSortError(o) ==
  IF IsOk(o) /\ o.shape = "list"
  THEN (IF \A i \in 1..Len(o.rows) : OrderIsInt(o.rows[i]) THEN SortByOrder(o.rows) ELSE o.rows)
  ELSE <<>>

\* the variables of the answer o: [] on every exception, the ValueError of
\* the sort key included
Variables(o) ==
  IF IsOk(o) /\ o.shape = "list" /\ \A i \in 1..Len(o.rows) : OrderIsInt(o.rows[i])
  THEN SortByOrder(o.rows)
  ELSE <<>>

\* the answer to the item_option_new request, whose rows the function reads
VariablesAnswer(o) ==
  answers' = Append(answers, [AnswerRecord(o, FALSE) EXCEPT
                                !.rows = IF IsOk(o) /\ o.shape = "list" THEN o.rows ELSE <<>>])

get_catalog_item_variables_request(o) ==
  /\ pc = "item_option_new"
  /\ LET headers == get_headers \cup {"Accept"}
     IN /\ authHeaders' = headers
        /\ reqs' = Append(reqs,
                     ReqX("variables", "GET", "item_option_new", <<>>,
                          {<<"cat_item=">> \o loc.cat.sys_id \o <<"^", "ORDERBYorder">>},
                          {1000}, {}, CatalogExtra, {}, {}, headers))
  /\ result' = GetCatalogItemOk(Variables(o))
  /\ loc' = [loc EXCEPT !.vars = VarsReturned(Variables(o))]
  /\ pc' = "done"
  /\ VariablesAnswer(o)
  /\ UNCHANGED <<tool, params>>

(************************* create_catalog_category *************************)
OptStrings == {{}, {<<>>}, {Laptop}}

StrBool(b) == IF b THEN <<"true">> ELSE <<"false">>

CreateCatalogCategoryParams ==
  [title : {Laptop, <<>>}, description : OptStrings, parent : {{}, {SysIdC}}, icon : {{}},
   active : BOOLEAN, order : {{}, {5}}]

\* a request body: each field is Optional, {} when the key is absent
CategoryBody(title, description, parent, icon, active, order) ==
  [title |-> title, description |-> description, parent |-> parent, icon |-> icon,
   active |-> active, order |-> order]

CreateCatalogCategoryBody(p) ==
  CategoryBody({p.title}, p.description, p.parent, p.icon, {StrBool(p.active)},
               {<<ToString(n)>> : n \in p.order})

\* result.get("result", {}) then category.get(...): a null or list result
\* raises AttributeError, which is not a RequestException
WriteCategoryResult(o, errPrefix, okMessage, data) ==
  IF ~IsOk(o)
  THEN CatalogResponse(FALSE, <<errPrefix, o.text>>, NoData)
  ELSE IF o.shape \in {"null", "list"}
  THEN Raise("AttributeError")
  ELSE CatalogResponse(TRUE, okMessage, data)

CategoryFields == {"sys_id", "title", "description", "parent", "icon", "active", "order"}

create_catalog_category(p, o) ==
  /\ pc = "idle"
  /\ LET headers == get_headers \cup {"Accept", "Content-Type"}
     IN /\ authHeaders' = headers
        /\ reqs' = <<Req("create", "POST", "sc_category", <<>>, {}, {}, {},
                         {CreateCatalogCategoryBody(p)}, {}, headers)>>
  /\ result' = WriteCategoryResult(o, "Error creating catalog category: ",
                                   <<"Created catalog category: ">> \o p.title,
                                   Data(CategoryFields))
  /\ tool' = "create_catalog_category"
  /\ params' = p
  /\ pc' = "done"
  /\ Answer(o)
  /\ UNCHANGED loc

(************************* update_catalog_category *************************)
UpdateCatalogCategoryParams ==
  [category_id : CategoryIds, title : {{}, {Laptop}}, description : {{}, {<<>>}},
   parent : {{}}, icon : {{}, {<<"i">>}}, active : {{}, {TRUE}, {FALSE}}, order : {{}, {0}}]

\* the body as it would be if fields were tested for truth instead of None
UpdateCatalogCategoryBodyTruthy(p) ==
  CategoryBody(IF Truthy(p.title) THEN p.title ELSE {},
               IF Truthy(p.description) THEN p.description ELSE {},
               IF Truthy(p.parent) THEN p.parent ELSE {},
               IF Truthy(p.icon) THEN p.icon ELSE {},
               {StrBool(b) : b \in p.active \ {FALSE}},
               {<<ToString(n)>> : n \in p.order \ {0}})

UpdateCatalogCategoryBody(p) ==
  CategoryBody(p.title, p.description, p.parent, p.icon, {StrBool(b) : b \in p.active},
               {<<ToString(n)>> : n \in p.order})

UpdateCatalogCategoryNotFound(p) ==
  CatalogResponse(FALSE, <<"Catalog category not found: ">> \o p.category_id, NoData)

update_catalog_category(p, o) ==
  /\ pc = "idle"
  /\ tool' = "update_catalog_category"
  /\ params' = p
  /\ reqs' = <<ResolveReq("resolve", "sc_category", p.category_id, "title")>>
  /\ LET r == ResolveResult(p.category_id, o)
     IN IF ~Resolved(r)
        THEN /\ result' = UpdateCatalogCategoryNotFound(p)
             /\ pc' = "done"
             /\ loc' = [loc EXCEPT !.res = r]
        ELSE IF "sys_id" \notin r.record.keys
        THEN result' = Raise("KeyError") /\ pc' = "done" /\ loc' = [loc EXCEPT !.res = r]
        ELSE /\ loc' = [loc EXCEPT !.rec = r.record, !.res = r]
             /\ pc' = "update_catalog_category_patch"
             /\ UNCHANGED result
  /\ ResolverAnswer(o)
  /\ UNCHANGED authHeaders

\* the PATCH as it would be if addressed by the identifier the caller gave
update_catalog_category_patch_as_given(o) ==
  /\ pc = "update_catalog_category_patch"
  /\ LET headers == get_headers \cup {"Accept", "Content-Type"}
     IN /\ authHeaders' = headers
        /\ reqs' = Append(reqs, Req("patch", "PATCH", "sc_category", params.category_id, {}, {}, {},
                                    {UpdateCatalogCategoryBody(params)}, {}, headers))
  /\ result' = WriteCategoryResult(o, "Error updating catalog category: ",
                                   <<"Updated catalog category: ">>, Data({"category"}))
  /\ pc' = "done"
  /\ Answer(o)
  /\ UNCHANGED <<tool, params, loc>>

update_catalog_category_patch(o) ==
  /\ pc = "update_catalog_category_patch"
  /\ LET headers == get_headers \cup {"Accept", "Content-Type"}
     IN /\ authHeaders' = headers
        /\ reqs' = Append(reqs, Req("patch", "PATCH", "sc_category", loc.rec.sys_id, {}, {}, {},
                                    {UpdateCatalogCategoryBody(params)}, {}, headers))
  /\ result' = WriteCategoryResult(o, "Error updating catalog category: ",
                                   <<"Updated catalog category: ">>, Data({"category"}))
  /\ pc' = "done"
  /\ Answer(o)
  /\ UNCHANGED <<tool, params, loc>>

(*************************** move_catalog_items ****************************)
MoveItemIds == {SysIdA, Laptop}

MoveCatalogItemsParams ==
  [item_ids : UNION {[1..n -> MoveItemIds] : n \in 0..MaxItems},
   target_category_id : {<<"H", "w">>}]

\* except Exception around the whole body: a record without sys_id
MoveKeyError == CatalogResponse(FALSE, <<"Error moving catalog items: ", "'sys_id'">>, NoData)

\* resolve the target category, then take the headers
move_catalog_items(p, o) ==
  /\ pc = "idle"
  /\ tool' = "move_catalog_items"
  /\ params' = p
  /\ reqs' = <<ResolveReq("resolve_category", "sc_category", p.target_category_id, "title")>>
  /\ LET r == ResolveResult(p.target_category_id, o)
     IN IF ~Resolved(r)
        THEN /\ result' = CatalogResponse(FALSE,
                            <<"Target category not found: ">> \o p.target_category_id, NoData)
             /\ pc' = "done"
             /\ loc' = [loc EXCEPT !.res = r]
             /\ UNCHANGED authHeaders
        ELSE IF "sys_id" \notin r.record.keys
        THEN /\ result' = MoveKeyError
             /\ pc' = "done"
             /\ loc' = [loc EXCEPT !.res = r]
             /\ UNCHANGED authHeaders
        ELSE /\ loc' = [loc EXCEPT !.cat = r.record, !.i = 1, !.res = r]
             /\ authHeaders' = get_headers \cup {"Accept", "Content-Type"}
             /\ pc' = "move_loop"
             /\ UNCHANGED result
  /\ ResolverAnswer(o)

\* the lookup as it would be if an entry that is not found were skipped unrecorded
move_catalog_items_lookup_unrecorded(o) ==
  /\ pc = "move_loop"
  /\ loc.i <= Len(params.item_ids)
  /\ LET item_id == params.item_ids[loc.i]
         r == ResolveResult(item_id, o)
     IN /\ reqs' = Append(reqs, ResolveReq("resolve_item", "sc_cat_item", item_id, "name"))
        /\ IF ~Resolved(r)
           THEN /\ loc' = [loc EXCEPT !.i = @ + 1, !.res = r]
                /\ UNCHANGED <<pc, result>>
           ELSE IF "sys_id" \notin r.record.keys
           THEN result' = MoveKeyError /\ pc' = "done" /\ loc' = [loc EXCEPT !.res = r]
           ELSE /\ loc' = [loc EXCEPT !.rec = r.record, !.res = r]
                /\ pc' = "move_patch"
                /\ UNCHANGED result
  /\ ResolverAnswer(o)
  /\ UNCHANGED <<tool, params, authHeaders>>

\* one pass of the loop up to the PATCH: look the item up
move_catalog_items_lookup(o) ==
  /\ pc = "move_loop"
  /\ loc.i <= Len(params.item_ids)
  /\ LET item_id == params.item_ids[loc.i]
         r == ResolveResult(item_id, o)
     IN /\ reqs' = Append(reqs, ResolveReq("resolve_item", "sc_cat_item", item_id, "name"))
        /\ IF ~Resolved(r)
           THEN /\ loc' = [loc EXCEPT !.failed_items =
                             Append(@, [item_id |-> item_id, error |-> "Item not found"]),
                                      !.i = @ + 1, !.res = r]
                /\ UNCHANGED <<pc, result>>
           ELSE IF "sys_id" \notin r.record.keys
           THEN result' = MoveKeyError /\ pc' = "done" /\ loc' = [loc EXCEPT !.res = r]
           ELSE /\ loc' = [loc EXCEPT !.rec = r.record, !.res = r]
                /\ pc' = "move_patch"
                /\ UNCHANGED result
  /\ ResolverAnswer(o)
  /\ UNCHANGED <<tool, params, authHeaders>>

\* the PATCH as it would be if it wrote the item's own sys_id as the category
move_catalog_items_patch_self(o) ==
  /\ pc = "move_patch"
  /\ reqs' = Append(reqs, Req("patch_item", "PATCH", "sc_cat_item", loc.rec.sys_id, {}, {}, {},
                              {[category |-> loc.rec.sys_id]}, {}, get_headers))
  /\ IF IsOk(o)
     THEN loc' = [loc EXCEPT !.success_count = @ + 1, !.i = @ + 1]
     ELSE loc' = [loc EXCEPT !.failed_items =
                    Append(@, [item_id |-> params.item_ids[loc.i], error |-> o.text]),
                             !.i = @ + 1]
  /\ pc' = "move_loop"
  /\ Answer(o)
  /\ UNCHANGED <<tool, params, result, authHeaders>>

\* the PATCH as it would be if a failed PATCH sent the loop back to the same entry
move_catalog_items_patch_retry(o) ==
  /\ pc = "move_patch"
  /\ reqs' = Append(reqs, Req("patch_item", "PATCH", "sc_cat_item", loc.rec.sys_id, {}, {}, {},
                              {[category |-> loc.cat.sys_id]}, {}, get_headers))
  /\ IF IsOk(o)
     THEN loc' = [loc EXCEPT !.success_count = @ + 1, !.i = @ + 1]
     ELSE UNCHANGED loc
  /\ pc' = "move_loop"
  /\ Answer(o)
  /\ UNCHANGED <<tool, params, result, authHeaders>>

\* the PATCH of the item just looked up; its RequestException is caught in the loop
move_catalog_items_patch(o) ==
  /\ pc = "move_patch"
  /\ reqs' = Append(reqs, Req("patch_item", "PATCH", "sc_cat_item", loc.rec.sys_id, {}, {}, {},
                              {[category |-> loc.cat.sys_id]}, {}, get_headers))
  /\ IF IsOk(o)
     THEN loc' = [loc EXCEPT !.success_count = @ + 1, !.i = @ + 1]
     ELSE loc' = [loc EXCEPT !.failed_items =
                    Append(@, [item_id |-> params.item_ids[loc.i], error |-> o.text]),
                             !.i = @ + 1]
  /\ pc' = "move_loop"
  /\ Answer(o)
  /\ UNCHANGED <<tool, params, result, authHeaders>>

MoveData(withFailed) ==
  Data({"moved_items_count", "target_category_id", "target_category_name"}
         \cup (IF withFailed THEN {"failed_items"} ELSE {}))

MoveResult(l, item_ids) ==
  IF l.success_count = Len(item_ids)
  THEN [CatalogResponse(TRUE, <<"Successfully moved ", ToString(l.success_count)>>,
                        MoveData(FALSE)) EXCEPT !.n = l.success_count]
  ELSE IF l.success_count > 0
  THEN [CatalogResponse(TRUE, <<"Partially moved catalog items. ", ToString(l.success_count),
                                ToString(Len(l.failed_items))>>, MoveData(TRUE))
          EXCEPT !.n = l.success_count, !.rows = l.failed_items]
  ELSE [CatalogResponse(FALSE, <<"Failed to move any catalog items">>, Data({"failed_items"}))
          EXCEPT !.rows = l.failed_items]

move_catalog_items_return ==
  /\ pc = "move_loop"
  /\ loc.i > Len(params.item_ids)
  /\ result' = MoveResult(loc, params.item_ids)
  /\ pc' = "done"
  /\ UNCHANGED <<tool, params, loc, reqs, answers, authHeaders>>

(****************************** characters *********************************)
UpperSeq == <<"A", "B", "C", "D", "E", "F", "G", "H", "I", "J", "K", "L", "M",
              "N", "O", "P", "Q", "R", "S", "T", "U", "V", "W", "X", "Y", "Z">>
LowerSeq == <<"a", "b", "c", "d", "e", "f", "g", "h", "i", "j", "k", "l", "m",
              "n", "o", "p", "q", "r", "s", "t", "u", "v", "w", "x", "y", "z">>
Digits == {"0", "1", "2", "3", "4", "5", "6", "7", "8", "9"}

Range(f) == {f[i] : i \in DOMAIN f}

AlnumChars == Range(UpperSeq) \cup Range(LowerSeq) \cup Digits
\* \w
WordChars == AlnumChars \cup {"_"}

LowerChar(c) ==
  IF c \in Range(UpperSeq) THEN LowerSeq[CHOOSE i \in DOMAIN UpperSeq : UpperSeq[i] = c] ELSE c

\* str.lower()
Lower(s) == [i \in 1..Len(s) |-> LowerChar(s[i])]

\* re.findall(r'\b\w+\b', s): the maximal runs of word characters
RECURSIVE Runs(_, _)
Runs(s, cur) ==
  IF s = <<>> THEN (IF cur = <<>> THEN <<>> ELSE <<cur>>)
  ELSE IF Head(s) \in WordChars THEN Runs(Tail(s), Append(cur, Head(s)))
  ELSE (IF cur = <<>> THEN <<>> ELSE <<cur>>) \o Runs(Tail(s), <<>>)

FindallWords(s) == Runs(s, <<>>)

\* s.split(" ") for a stripped string with single spaces
RECURSIVE SplitOn(_, _, _)
SplitOn(s, sep, cur) ==
  IF s = <<>> THEN <<cur>>
  ELSE IF Head(s) = sep THEN <<cur>> \o SplitOn(Tail(s), sep, <<>>)
  ELSE SplitOn(Tail(s), sep, Append(cur, Head(s)))

Words(s) == SplitOn(s, " ", <<>>)

(************************ natural_language_search **************************)
\* longest query, in words, given to natural_language_search
MaxWords == 2

W_sap == <<"S", "A", "P">>
W_find == <<"f", "i", "n", "d">>
W_mails == <<"M", "a", "i", "l", "s">>
SearchVocabulary == {W_sap, W_find, W_mails}

SearchQueries ==
  {Join(ws, <<" ">>) : ws \in UNION {[1..n -> SearchVocabulary] : n \in 1..MaxWords}}

NaturalLanguageSearchParams == [query : SearchQueries, table : {"incident"}, limit : {10}]

MinKeywordLen == 3

\* the query_parts as they would be if keywords of 3 characters were kept
QueryPartsFromThree(query) ==
  LET keywords == FindallWords(Lower(query))
      kept == SelectSeq(keywords, LAMBDA k : Len(k) >= MinKeywordLen)
  IN [i \in 1..Len(kept) |-> <<"LIKE">> \o kept[i]]

\* the query_parts of a query: "LIKE<keyword>" for each keyword longer than 3
QueryParts(query) ==
  LET keywords == FindallWords(Lower(query))
      kept == SelectSeq(keywords, LAMBDA k : Len(k) > MinKeywordLen)
  IN [i \in 1..Len(kept) |-> <<"LIKE">> \o kept[i]]

SearchQuery(query) == Join(QueryParts(query), <<"^", "OR">>)

SearchFailKeys == {"success", "message", "results"}
SearchOkKeys == {"success", "message", "results", "query_used"}

\* results = response.json().get("result", []); len(None) and a non-list
\* results value fail inside the try and are caught by except Exception
SearchResult(o) ==
  IF ~IsOk(o)
  THEN Return(SearchFailKeys, FALSE, <<"Failed to perform search: ", o.text>>, NoData, <<>>, 0)
  ELSE IF o.shape = "missing"
  THEN Return(SearchOkKeys, TRUE, <<"Found matching records: ", ToString(0)>>, NoData, <<>>, 0)
  ELSE IF o.shape = "list"
  THEN Return(SearchOkKeys, TRUE, <<"Found matching records: ", ToString(Len(o.rows))>>,
              NoData, o.rows, Len(o.rows))
  ELSE Return(SearchFailKeys, FALSE, <<"Unexpected error during search: ", o.shape>>,
              NoData, <<>>, 0)

natural_language_search(p, o) ==
  /\ pc = "idle"
  /\ tool' = "natural_language_search"
  /\ params' = p
  /\ pc' = "done"
  /\ IF QueryParts(p.query) = <<>>
     THEN /\ reqs' = <<>>
          /\ result' = Return(SearchFailKeys, FALSE,
                              <<"No valid search terms found in the query">>, NoData, <<>>, 0)
     ELSE /\ reqs' = <<ReqX("search", "GET", p.table, <<>>, {SearchQuery(p.query)}, {p.limit}, {},
                            {<<"sysparm_display_value", <<"all">>>>}, {}, {Timeout}, get_headers)>>
          /\ result' = IF SearchResult(o).success
                       THEN [SearchResult(o) EXCEPT !.query_used = SearchQuery(p.query)]
                       ELSE SearchResult(o)
  /\ Answer(o)
  /\ UNCHANGED <<loc, authHeaders>>

(************************ natural_language_update **************************)
W_update == <<"U", "p", "d", "a", "t", "e">>
W_please == <<"p", "l", "e", "a", "s", "e">>
W_incident == <<"I", "n", "c", "i", "d", "e", "n", "t">>
W_inc1 == <<"I", "N", "C", "1">>
W_inc_1 == <<"I", "N", "C", "_", "1">>
W_saying == <<"s", "a", "y", "i", "n", "g">>
W_with == <<"w", "i", "t", "h">>
W_setting == <<"s", "e", "t", "t", "i", "n", "g">>
W_and == <<"a", "n", "d">>
W_to == <<"t", "o">>
W_as == <<"a", "s">>
W_state == <<"s", "t", "a", "t", "e">>
W_done == <<"d", "o", "n", "e">>
W_hi == <<"h", "i">>

\* update instructions: stripped, words separated by single spaces; no word
\* other than the keywords themselves holds "saying", or starts with
\* "saying", "with" or "setting"
UpdateQueries ==
  {Join(ws, <<" ">>) : ws \in
     {<<W_update, W_incident, W_inc1, W_saying, W_hi, W_and, W_done>>,
      <<W_update, W_incident, W_inc1, W_saying, W_hi>>,
      <<W_update, W_incident, W_inc1, W_saying>>,
      <<W_update, W_incident, W_inc1, W_state, W_to, W_done>>,
      <<W_update, W_incident, W_inc1, W_with, W_state, W_as, W_done>>,
      <<W_update, W_incident, W_inc1, W_setting>>,
      <<W_update, W_incident, W_inc1>>,
      <<W_update, W_incident, W_inc_1, W_state, W_to, W_done>>,
      <<W_update, W_incident, W_inc_1, W_saying, W_hi>>,
      <<W_update, W_incident>>,
      <<W_please, W_update, W_incident, W_inc1, W_state, W_to, W_done>>}}

NaturalLanguageUpdateParams == [query : UpdateQueries]

AllIn(w, chars) == \A i \in 1..Len(w) : w[i] \in chars

\* the longest prefix of w made of characters of chars
RECURSIVE PrefixIn(_, _)
PrefixIn(w, chars) ==
  IF w = <<>> \/ Head(w) \notin chars THEN <<>> ELSE <<Head(w)>> \o PrefixIn(Tail(w), chars)

\* re.match(r"update\s+(\w+)\s+([A-Z0-9]+)(?:\s+(?:saying|with|setting)?\s*(.*))?", query, re.IGNORECASE)
UpdateMatches(ws) ==
  /\ Len(ws) >= 3
  /\ Lower(ws[1]) = Lower(W_update)
  /\ ws[2] # <<>> /\ AllIn(ws[2], WordChars)
  /\ PrefixIn(ws[3], AlnumChars) # <<>>

\* group(3).strip(), as words: "" when the optional group did not take part
ChangesWords(ws) ==
  IF Len(ws) < 4 \/ ~AllIn(ws[3], AlnumChars) THEN <<>>
  ELSE IF Lower(ws[4]) \in {W_saying, W_with, W_setting} THEN SubSeq(ws, 5, Len(ws))
  ELSE SubSeq(ws, 4, Len(ws))

\* re.search(r"saying\s+(.*?)(?:\s+and\s+|$)", query, re.IGNORECASE): group(1) as a
\* set, empty when there is no match
CommentText(ws) ==
  LET ks == {k \in 1..(Len(ws) - 1) : Lower(ws[k]) = W_saying}
  IN IF ks = {} THEN {}
     ELSE LET k == CHOOSE x \in ks : \A y \in ks : x <= y
              js == {j \in (k + 2)..(Len(ws) - 1) : Lower(ws[j]) = W_and}
              e == IF js = {} THEN Len(ws) ELSE (CHOOSE x \in js : \A y \in js : x <= y) - 1
          IN {Join(SubSeq(ws, k + 1, e), <<" ">>)}

\* re.findall(r"(\w+)\s+(?:to|as)\s+([^,]+)", changes_text, re.IGNORECASE) for a
\* changes_text without commas: at most one (field, value) pair
FieldUpdates(cw) ==
  LET is == {i \in 1..(Len(cw) - 2) : Lower(cw[i + 1]) \in {W_to, W_as} /\ AllIn(cw[i], WordChars)}
  IN IF is = {} THEN {}
     ELSE LET i == CHOOSE x \in is : \A y \in is : x <= y
          IN {<<cw[i], Join(SubSeq(cw, i + 2, Len(cw)), <<" ">>)>>}

\* the changes mapping as a set of <<field, value>> pairs
Changes(query) ==
  LET ws == Words(query)
  IN IF \E k \in 1..Len(ws) : Lower(ws[k]) = W_saying
     THEN {<<"comments", c>> : c \in CommentText(ws)}
     ELSE FieldUpdates(ChangesWords(ws))

UpdateKeys == {"success", "message", "updated"}

\* natural_language_update as it would be if it kept the table name as written
natural_language_update_table_as_written(p, o) ==
  /\ pc = "idle"
  /\ tool' = "natural_language_update"
  /\ params' = p
  /\ pc' = "done"
  /\ LET ws == Words(p.query)
     IN IF ~UpdateMatches(ws)
        THEN /\ reqs' = <<>>
             /\ result' = Return(UpdateKeys, FALSE, <<"Could not parse update command">>,
                                 NoData, <<>>, 0)
        ELSE IF Changes(p.query) = {}
        THEN /\ reqs' = <<>>
             /\ result' = Return(UpdateKeys, FALSE,
                                 <<"No valid changes specified in the update command">>,
                                 NoData, <<>>, 0)
        ELSE /\ reqs' = <<Req("update", "PATCH", ws[2], PrefixIn(ws[3], AlnumChars),
                              {}, {}, {}, {Changes(p.query)}, {Timeout}, get_headers)>>
             /\ result' =
                  IF ~IsOk(o)
                  THEN Return(UpdateKeys, FALSE, <<"Failed to perform update: ", o.text>>,
                              NoData, <<>>, 0)
                  ELSE Updated(UpdateKeys \cup {"result"}, <<"Successfully updated ">> \o Lower(ws[2]))
  /\ Answer(o)
  /\ UNCHANGED <<loc, authHeaders>>

natural_language_update(p, o) ==
  /\ pc = "idle"
  /\ tool' = "natural_language_update"
  /\ params' = p
  /\ pc' = "done"
  /\ LET ws == Words(p.query)
     IN IF ~UpdateMatches(ws)
        THEN /\ reqs' = <<>>
             /\ result' = Return(UpdateKeys, FALSE, <<"Could not parse update command">>,
                                 NoData, <<>>, 0)
        ELSE IF Changes(p.query) = {}
        THEN /\ reqs' = <<>>
             /\ result' = Return(UpdateKeys, FALSE,
                                 <<"No valid changes specified in the update command">>,
                                 NoData, <<>>, 0)
        ELSE /\ reqs' = <<Req("update", "PATCH", Lower(ws[2]), PrefixIn(ws[3], AlnumChars),
                              {}, {}, {}, {Changes(p.query)}, {Timeout}, get_headers)>>
             /\ result' =
                  IF ~IsOk(o)
                  THEN Return(UpdateKeys, FALSE, <<"Failed to perform update: ", o.text>>,
                              NoData, <<>>, 0)
                  ELSE Updated(UpdateKeys \cup {"result"}, <<"Successfully updated ">> \o Lower(ws[2]))
  /\ Answer(o)
  /\ UNCHANGED <<loc, authHeaders>>

(****************************** update_script ******************************)
ScriptTypes == {"business_rule", "script_include", "ui_action", "ui_script"}

\* script_type_map
ScriptTable(script_type) ==
  CASE script_type = "business_rule" -> "sys_script"
    [] script_type = "script_include" -> "sys_script_include"
    [] script_type = "ui_action" -> "sys_ui_action"
    [] script_type = "ui_script" -> "sys_ui_script"

UpdateScriptParams ==
  [script_id : {Laptop, SysIdA, Inject}, script_type : {"business_rule", "ui_script", "widget"},
   script : {<<"x">>}, description : {{}, {<<>>}}, active : BOOLEAN]

UpdateScriptQuery(p) == <<"name=">> \o p.script_id \o <<"^", "ORsys_id=">> \o p.script_id

\* the lookup GET: scripts = response.json().get("result", []); scripts[0]["sys_id"]
update_script(p, o) ==
  /\ pc = "idle"
  /\ tool' = "update_script"
  /\ params' = p
  /\ IF p.script_type \notin ScriptTypes
     THEN /\ reqs' = <<>>
          /\ result' = Return(UpdateKeys, FALSE, <<"Unsupported script type: ", p.script_type>>,
                              NoData, <<>>, 0)
          /\ pc' = "done"
          /\ UNCHANGED loc
     ELSE /\ reqs' = <<Req("find", "GET", ScriptTable(p.script_type), <<>>, {UpdateScriptQuery(p)},
                           {}, {}, {}, {Timeout}, get_headers)>>
          /\ IF ~IsOk(o)
             THEN /\ result' = Return(UpdateKeys, FALSE, <<"Failed to update script: ", o.text>>,
                                      NoData, <<>>, 0)
                  /\ pc' = "done"
                  /\ UNCHANGED loc
             ELSE IF ~ResultTruthy(o)
             THEN /\ result' = Return(UpdateKeys, FALSE,
                                      <<"No ", p.script_type, " found with name or ID: ">>
                                        \o p.script_id, NoData, <<>>, 0)
                  /\ pc' = "done"
                  /\ UNCHANGED loc
             ELSE IF o.shape = "dict" \/ "sys_id" \notin o.rows[1].keys
             THEN /\ result' = Return(UpdateKeys, FALSE,
                                      <<"Unexpected error during script update: ", "KeyError">>,
                                      NoData, <<>>, 0)
                  /\ pc' = "done"
                  /\ UNCHANGED loc
             ELSE /\ loc' = [loc EXCEPT !.rec = o.rows[1]]
                  /\ pc' = "update_script_patch"
                  /\ UNCHANGED result
  /\ LookupAnswer(o)
  /\ UNCHANGED authHeaders

UpdateScriptBody(p) ==
  [script |-> {p.script}, active |-> {StrBool(p.active)}, description |-> p.description]

\* the PATCH as it would be if it addressed the script by the identifier given
update_script_patch_by_name(o) ==
  /\ pc = "update_script_patch"
  /\ reqs' = Append(reqs, Req("patch", "PATCH", ScriptTable(params.script_type), params.script_id,
                              {}, {}, {}, {UpdateScriptBody(params)}, {Timeout}, get_headers))
  /\ result' =
       IF ~IsOk(o)
       THEN Return(UpdateKeys, FALSE, <<"Failed to update script: ", o.text>>, NoData, <<>>, 0)
       ELSE Updated(UpdateKeys \cup {"result"},
                    <<"Successfully updated ", params.script_type>> \o params.script_id)
  /\ pc' = "done"
  /\ Answer(o)
  /\ UNCHANGED <<tool, params, loc, authHeaders>>

update_script_patch(o) ==
  /\ pc = "update_script_patch"
  /\ reqs' = Append(reqs, Req("patch", "PATCH", ScriptTable(params.script_type), loc.rec.sys_id,
                              {}, {}, {}, {UpdateScriptBody(params)}, {Timeout}, get_headers))
  /\ result' =
       IF ~IsOk(o)
       THEN Return(UpdateKeys, FALSE, <<"Failed to update script: ", o.text>>, NoData, <<>>, 0)
       ELSE Updated(UpdateKeys \cup {"result"},
                    <<"Successfully updated ", params.script_type>> \o params.script_id)
  /\ pc' = "done"
  /\ Answer(o)
  /\ UNCHANGED <<tool, params, loc, authHeaders>>

(******************************* get_records *******************************)
FieldLists == {{}, {<<>>}, {<< <<"number">>, <<"short_description">> >>}}

\* Field(10, ge=1, le=1000) and Field(0, ge=0): a GetRecordsParams outside these
\* ranges is never constructed
LimitMin == 1
LimitMax == 1000
OffsetMin == 0

GetRecordsParams ==
  [table_name : {"incident"}, query : {{}, {<<>>}, {<<"active=true">>}}, fields : FieldLists,
   limit : {l \in {0, 1, 1000, 1001} : LimitMin <= l /\ l <= LimitMax},
   offset : {f \in {-1, 0, 5} : OffsetMin <= f},
   order_by : {{}, {<<>>}, {<<"number">>}},
   order_direction : {"asc", "desc"}]

\* Python truthiness of an Optional[List[str]] is that of an Optional[str]
FieldsParam(fields) ==
  IF Truthy(fields) THEN {<<"sysparm_fields", Join(The(fields), <<",">>)>>} ELSE {}

\* the ordering as it would be if the ascending direction were spelled out
OrderByParamExplicitAsc(p) ==
  IF Truthy(p.order_by)
  THEN {<<"sysparm_order_by",
          The(p.order_by) \o (IF p.order_direction = "asc" THEN <<"ASC">> ELSE <<"DESC">>)>>}
  ELSE {}

OrderByParam(p) ==
  IF Truthy(p.order_by)
  THEN {<<"sysparm_order_by",
          The(p.order_by) \o (IF p.order_direction = "asc" THEN <<>> ELSE <<"DESC">>)>>}
  ELSE {}

ErrorKeys == {"success", "message", "error"}

\* the handlers as they would be if they reported the error without a message
FailureWithoutMessage(o, failedPrefix, unexpectedPrefix) ==
  Return({"success", "error"}, FALSE, <<>>, NoData, <<>>, 0)

\* the message and error of the two handlers (RequestException, then Exception)
Failure(o, failedPrefix, unexpectedPrefix) ==
  IF ~IsOk(o)
  THEN Return(ErrorKeys, FALSE, <<failedPrefix, o.text>>, NoData, <<>>, 0)
  ELSE Return(ErrorKeys, FALSE, <<unexpectedPrefix, o.shape>>, NoData, <<>>, 0)

\* records = result.get("result", []); len(records); RecordsResponse(records=...)
\* result.get("headers", {}).get("x-total-count", len(records))
TotalCount(o) == IF o.bodyTotal # {} THEN The(o.bodyTotal) ELSE Len(o.rows)

GetRecordsResult(p, o) ==
  IF IsOk(o) /\ o.shape \in {"list", "missing"}
  THEN Paged(Return({"success", "records", "count", "offset", "limit"}, TRUE, <<>>, NoData,
                    o.rows, TotalCount(o)), p)
  ELSE Failure(o, "Failed to get records from table: ", "Unexpected error getting records from table: ")

get_records(p, o) ==
  /\ pc = "idle"
  /\ tool' = "get_records"
  /\ params' = p
  /\ reqs' = <<ReqX("get", "GET", p.table_name, <<>>, IF Truthy(p.query) THEN p.query ELSE {},
                    {p.limit}, {p.offset}, FieldsParam(p.fields) \cup OrderByParam(p),
                    {}, {Timeout}, get_headers)>>
  /\ result' = GetRecordsResult(p, o)
  /\ pc' = "done"
  /\ PagedAnswer(o)
  /\ UNCHANGED <<loc, authHeaders>>

(******************************* get_record ********************************)
GetRecordParams == [table_name : {"incident"}, sys_id : {SysIdA, Item1}, fields : FieldLists]

RecordNotFound(p) ==
  <<"Record with sys_id not found in table: ">> \o p.sys_id \o <<p.table_name>>

NotFoundStatus == 404

\* the except HTTPError handler reads http_err.response.status_code: with no
\* response attached that read raises AttributeError out of the handler
GetRecordResult(p, o) ==
  IF IsOk(o)
  THEN IF ResultTruthy(o)
       THEN Return({"success", "record"}, TRUE, <<>>, NoData, <<o.rows[1]>>, 1)
       ELSE Return(ErrorKeys, FALSE, RecordNotFound(p), NoData, <<>>, 0)
  ELSE IF o.kind = "http"
  THEN IF ~o.hasResp THEN Raise("AttributeError")
       ELSE Return({"success", "message", "status_code"}, FALSE,
                   IF o.status = NotFoundStatus THEN RecordNotFound(p)
                   ELSE <<"HTTP error occurred: ", o.text>>,
                   NoData, <<>>, o.status)
  ELSE Return(ErrorKeys, FALSE, <<"Unexpected error getting record from table: ", o.text>>,
              NoData, <<>>, 0)

get_record(p, o) ==
  /\ pc = "idle"
  /\ tool' = "get_record"
  /\ params' = p
  /\ reqs' = <<ReqX("get", "GET", p.table_name, p.sys_id, {}, {}, {}, FieldsParam(p.fields),
                    {}, {}, get_headers)>>
  /\ result' = GetRecordResult(p, o)
  /\ pc' = "done"
  /\ RecordAnswer(o)
  /\ UNCHANGED <<loc, authHeaders>>

(******************************* list_tables *******************************)
\* an Optional[bool]: None, True or False
OptBools == {{}, {TRUE}, {FALSE}}

\* Python's `not x` for an Optional[bool]
NotTrue(opt) == opt # {TRUE}

ListTablesParams ==
  [limit : Limits, offset : Offsets, name_filter : FilterValues, include_sys : OptBools,
   include_extended : OptBools]

\* the query as it would be if the exclusions came before the name filter
ListTablesQueryExclusionsFirst(p) ==
  LET e == (IF NotTrue(p.include_sys) THEN <<<<"nameNOT LIKEsys_">>>> ELSE <<>>)
             \o (IF NotTrue(p.include_extended) THEN <<<<"nameNOT LIKEZZ_">>>> ELSE <<>>)
             \o (IF Truthy(p.name_filter)
                 THEN <<<<"nameLIKE">> \o The(p.name_filter) \o <<"^", "ORlabelLIKE">>
                          \o The(p.name_filter)>>
                 ELSE <<>>)
  IN IF e = <<>> THEN {} ELSE {Join(e, <<"^">>)}

ListTablesQuery(p) ==
  LET q1 == IF Truthy(p.name_filter)
            THEN {<<"nameLIKE">> \o The(p.name_filter) \o <<"^", "ORlabelLIKE">> \o The(p.name_filter)}
            ELSE {}
      q2 == IF NotTrue(p.include_sys)
            THEN IF q1 # {} THEN {The(q1) \o <<"^", "nameNOT LIKEsys_">>}
                 ELSE {<<"nameNOT LIKEsys_">>}
            ELSE q1
  IN IF NotTrue(p.include_extended)
     THEN IF q2 # {} THEN {The(q2) \o <<"^", "nameNOT LIKEZZ_">>}
          ELSE {<<"nameNOT LIKEZZ_">>}
     ELSE q2

TableFields ==
  <<"sysparm_fields", <<"name,label,description,is_extendable,is_view,sys_created_on,sys_updated_on">> >>

\* tables = result.get("result", []); len(tables); TableInfo(...) for each row
ListTablesResult(p, o) ==
  IF IsOk(o) /\ o.shape \in {"list", "missing"}
  THEN Paged(Return({"success", "tables", "count", "offset", "limit"}, TRUE, <<>>, NoData,
                    o.rows, TotalCount(o)), p)
  ELSE IF IsOk(o) /\ o.shape = "dict" /\ o.rows = <<>>
  THEN Paged(Return({"success", "tables", "count", "offset", "limit"}, TRUE, <<>>, NoData,
                    <<>>, 0), p)
  ELSE Failure(o, "Failed to list tables: ", "Unexpected error listing tables: ")

list_tables(p, o) ==
  /\ pc = "idle"
  /\ tool' = "list_tables"
  /\ params' = p
  /\ reqs' = <<ReqX("list", "GET", "sys_db_object", <<>>, ListTablesQuery(p), {p.limit}, {p.offset},
                    {TableFields}, {}, {Timeout}, get_headers)>>
  /\ result' = ListTablesResult(p, o)
  /\ pc' = "done"
  /\ PagedAnswer(o)
  /\ UNCHANGED <<loc, authHeaders>>

(**************************** list_table_schemas ***************************)
ListTableSchemasParams == [include_system_tables : BOOLEAN]

SchemaListLimit == 1000

ListTableSchemasQuery(p) ==
  IF ~p.include_system_tables
  THEN {<<"nameNOT LIKEsys_", "^", "nameNOT LIKEZZ_", "^", "nameNOT LIKEv_", "^">>}
  ELSE {}

\* a row without a name gives {"name": None}, which TableSchemaListResponse
\* (List[Dict[str, str]]) rejects inside the try
ListTableSchemasResult(o) ==
  IF IsOk(o) /\ (o.shape = "missing" \/ (o.shape = "dict" /\ o.rows = <<>>))
  THEN Return({"success", "tables"}, TRUE, <<>>, NoData, <<>>, 0)
  ELSE IF IsOk(o) /\ o.shape = "list" /\ \A i \in 1..Len(o.rows) : "name" \in o.rows[i].keys
  THEN Return({"success", "tables"}, TRUE, <<>>, NoData, o.rows, Len(o.rows))
  ELSE Failure(o, "Failed to list table schemas: ", "Unexpected error listing table schemas: ")

list_table_schemas(p, o) ==
  /\ pc = "idle"
  /\ tool' = "list_table_schemas"
  /\ params' = p
  /\ reqs' = <<ReqX("list", "GET", "sys_db_object", <<>>, ListTableSchemasQuery(p),
                    {SchemaListLimit}, {}, {<<"sysparm_fields", <<"name,label">>>>}, {}, {Timeout},
                    get_headers)>>
  /\ result' = ListTableSchemasResult(o)
  /\ pc' = "done"
  /\ Answer(o)
  /\ UNCHANGED <<loc, authHeaders>>

(***************************** get_table_schema ****************************)
GetTableSchemaParams == [table_name : {<<"incident">>, Inject}, include_all_fields : BOOLEAN]

SchemaFailure(o) ==
  Failure(o, "Failed to get schema for table: ", "Unexpected error getting schema for table: ")

\* the sys_db_object lookup: table_data = .get("result", [{}])[0]
get_table_schema(p, o) ==
  /\ pc = "idle"
  /\ tool' = "get_table_schema"
  /\ params' = p
  /\ reqs' = <<ReqX("table", "GET", "sys_db_object", <<>>, {<<"name=">> \o p.table_name}, {}, {},
                    {<<"sysparm_fields", <<"name,label,description,sys_created_on,sys_updated_on">>>>},
                    {}, {Timeout}, get_headers)>>
  /\ IF IsOk(o) /\ (o.shape = "missing" \/ (o.shape = "list" /\ o.rows # <<>> /\ o.rows[1] = RowEmpty))
     THEN /\ result' = Return(ErrorKeys, FALSE, <<"Table not found: ">> \o p.table_name,
                              NoData, <<>>, 0)
          /\ pc' = "done"
          /\ UNCHANGED loc
     ELSE IF IsOk(o) /\ o.shape = "list" /\ o.rows # <<>>
     THEN /\ loc' = [loc EXCEPT !.rec = o.rows[1]]
          /\ pc' = "get_table_schema_fields"
          /\ UNCHANGED result
     ELSE result' = SchemaFailure(o) /\ pc' = "done" /\ UNCHANGED loc
  /\ SchemaAnswer(o)
  /\ UNCHANGED authHeaders

GetTableSchemaQuery(p) ==
  <<"name=">> \o p.table_name
    \o (IF ~p.include_all_fields THEN <<"^", "column_label!=">> ELSE <<>>)

SchemaKeys ==
  {"success", "name", "label", "description", "sys_created_on", "sys_updated_on", "fields"}

\* the rows of the answer that have an element: if not field_name: continue
SchemaFields(o) == SelectSeq(o.rows, LAMBDA r : Truthy(r.element))

\* field.get(key, "false").lower() == "true", compared without lower-casing
IsTrueStringExact(opt) == opt # {} /\ The(opt) = StrTrue

\* field.get(key, "false").lower() == "true"
IsTrueString(opt) == opt # {} /\ Lower(The(opt)) = StrTrue

\* fields[field_name] = FieldInfo(...) for each row in turn: a later row with
\* the same element replaces the entry of an earlier one
FieldInfos(rows) ==
  {[name |-> The(rows[i].element),
    mandatory |-> IsTrueString(rows[i].mandatory),
    read_only |-> IsTrueString(rows[i].read_only)]
     : i \in {k \in 1..Len(rows) : \A j \in (k + 1)..Len(rows) : rows[j].element # rows[k].element}}

\* table_data.get("name", "")
TableName(table_data) == IF "name" \in table_data.keys THEN table_data.name ELSE <<>>

\* the sys_dictionary request and the fields of its answer
get_table_schema_fields(o) ==
  /\ pc = "get_table_schema_fields"
  /\ reqs' = Append(reqs,
               ReqX("fields", "GET", "sys_dictionary", <<>>, {GetTableSchemaQuery(params)}, {}, {},
                    {<<"sysparm_fields", <<"element,column_label,internal_type,max_length,reference,mandatory,read_only,default_value,choices,description">>>>},
                    {}, {Timeout}, get_headers))
  /\ result' =
       IF IsOk(o) /\ (o.shape \in {"list", "missing"} \/ (o.shape = "dict" /\ o.rows = <<>>))
       THEN [Return(SchemaKeys, TRUE, <<>>, NoData, SchemaFields(o), Len(SchemaFields(o)))
               EXCEPT !.name = TableName(loc.rec), !.fields = FieldInfos(SchemaFields(o))]
       ELSE SchemaFailure(o)
  /\ pc' = "done"
  /\ SchemaAnswer(o)
  /\ UNCHANGED <<tool, params, loc, authHeaders>>

(***************************** the caller **********************************)
\* the caller takes the result; nothing of the invocation is kept
Finish ==
  /\ pc = "done"
  /\ pc' = "idle"
  /\ tool' = "none"
  /\ params' = NoParams
  /\ loc' = NoLoc
  /\ reqs' = <<>>
  /\ answers' = <<>>
  /\ result' = NoResult
  /\ UNCHANGED authHeaders

Init ==
  /\ pc = "idle"
  /\ tool = "none"
  /\ params = NoParams
  /\ loc = NoLoc
  /\ reqs = <<>>
  /\ answers = <<>>
  /\ result = NoResult
  /\ authHeaders = ProviderHeaders

\* the parameters a caller may pass: the tools are synchronous, so there are
\* none while an invocation runs
Callable(ps) == IF pc = "idle" THEN ps ELSE {}

Next ==
  \/ \E p \in Callable(ListCatalogItemsParams), o \in Outcomes : list_catalog_items(p, o)
  \/ \E p \in Callable(ListCatalogCategoriesParams), o \in Outcomes : list_catalog_categories(p, o)
  \/ \E p \in Callable(GetCatalogItemParams), o \in Outcomes : get_catalog_item(p, o)
  \/ \E o \in Outcomes : get_catalog_item_variables(o)
  \/ \E o \in VariableOutcomes : get_catalog_item_variables_request(o)
  \/ \E p \in Callable(CreateCatalogCategoryParams), o \in Outcomes : create_catalog_category(p, o)
  \/ \E p \in Callable(UpdateCatalogCategoryParams), o \in Outcomes : update_catalog_category(p, o)
  \/ \E o \in Outcomes : update_catalog_category_patch(o)
  \/ \E p \in Callable(MoveCatalogItemsParams), o \in Outcomes : move_catalog_items(p, o)
  \/ \E o \in Outcomes : move_catalog_items_lookup(o)
  \/ \E o \in Outcomes : move_catalog_items_patch(o)
  \/ move_catalog_items_return
  \/ \E p \in Callable(NaturalLanguageSearchParams), o \in Outcomes : natural_language_search(p, o)
  \/ \E p \in Callable(NaturalLanguageUpdateParams), o \in Outcomes : natural_language_update(p, o)
  \/ \E p \in Callable(UpdateScriptParams), o \in Outcomes : update_script(p, o)
  \/ \E o \in Outcomes : update_script_patch(o)
  \/ \E p \in Callable(GetRecordsParams), o \in Outcomes : get_records(p, o)
  \/ \E p \in Callable(GetRecordParams), o \in Outcomes : get_record(p, o)
  \/ \E p \in Callable(ListTablesParams), o \in Outcomes : list_tables(p, o)
  \/ \E p \in Callable(ListTableSchemasParams), o \in Outcomes : list_table_schemas(p, o)
  \/ \E p \in Callable(GetTableSchemaParams), o \in Outcomes : get_table_schema(p, o)
  \/ \E o \in SchemaOutcomes : get_table_schema_fields(o)
  \/ Finish

Spec == Init /\ [][Next]_vars

(***************************** properties **********************************)
ReqIdx == 1..Len(reqs)

CountStep(step) == Cardinality({i \in ReqIdx : reqs[i].step = step})

HasMessage(r) == "message" \in r.keys /\ r.message # <<>>

\* C1: every invocation of every tool ends by returning a result and never by
\* an exception reaching the caller, whatever the answers to its requests;
\* when its first request fails the result has success = false and a message.
C1_NoExceptionPropagates ==
  pc = "done" =>
    /\ result.returned
    /\ ~result.raised
    /\ (answers # <<>> /\ answers[1].kind # "ok" => ~result.success /\ HasMessage(result))

\* C2 as stated: every returned result, success or failure, has both a
\* success field and a message field.
C2_EveryResultHasMessage ==
  result.returned => {"success", "message"} \subseteq result.keys

MessagelessTools ==
  {"get_records", "get_record", "list_tables", "get_table_schema", "list_table_schemas"}

\* C2 amended: every returned result has a success field; every failed result
\* also has a non-empty message; a result without a message field is a
\* successful result of get_records, get_record, list_tables,
\* get_table_schema or list_table_schemas, whose successful results never have one.
C2_FailureHasMessage ==
  result.returned =>
    /\ "success" \in result.keys
    /\ (~result.success => HasMessage(result))
    /\ ("message" \notin result.keys <=> result.success /\ tool \in MessagelessTools)

C2_Witness ==
  /\ pc = "done"
  /\ tool = "get_records"
  /\ result.returned
  /\ result.success
  /\ "message" \notin result.keys
  /\ result.n = MaxRows

OwnHeaderTools ==
  {"get_records", "get_record", "list_tables", "get_table_schema", "list_table_schemas",
   "natural_language_search", "natural_language_update", "update_script"}

\* C3: invocations share no mutable state: the header mapping obtained from
\* the auth provider is never changed, and the headers of the requests of a
\* tool that adds none are the provider's, whatever ran before.
C3_HeadersUnchanged ==
  /\ authHeaders = ProviderHeaders
  /\ (tool \in OwnHeaderTools => \A i \in ReqIdx : reqs[i].headers = ProviderHeaders)

\* C4: every request issued by any tool carries the fixed timeout; none is
\* issued without one.
C4_EveryRequestHasTimeout ==
  \A i \in ReqIdx : reqs[i].timeout = {Timeout}

SingleSteps ==
  {"list", "resolve", "variables_resolve", "variables", "create", "patch", "resolve_category",
   "search", "update", "find", "get", "table", "fields"}

\* C5: no tool retries: within an invocation every request step is issued at
\* most once, move_catalog_items looks up and patches each list entry at most
\* once (never more lookups than entries reached), and when the first request
\* of update_script or get_table_schema fails no second request is issued and
\* the invocation has returned a failed result.
C5_NoRetry ==
  /\ \A st \in SingleSteps : CountStep(st) <= 1
  /\ CountStep("resolve_item") <= loc.i
  /\ CountStep("resolve_item") <= (IF tool = "move_catalog_items" THEN Len(params.item_ids) ELSE 0)
  /\ CountStep("patch_item") <= CountStep("resolve_item")
  /\ (tool \in {"update_script", "get_table_schema"} /\ answers # <<>> /\ answers[1].kind # "ok"
        => /\ Len(reqs) = 1
           /\ pc = "done"
           /\ result.returned
           /\ ~result.success)

C5_Witness ==
  /\ tool = "update_script"
  /\ pc = "done"
  /\ Len(reqs) = 1
  /\ answers[1].kind = "http"
  /\ ~result.success

BoolToInt(b) == IF b THEN 1 ELSE 0

\* the conditions the filters that are set ask for
ExpectedConditions ==
  CASE tool = "list_catalog_items" ->
         BoolToInt(params.active) + BoolToInt(Truthy(params.category))
           + 2 * BoolToInt(Truthy(params.query))
    [] tool = "list_catalog_categories" ->
         BoolToInt(params.active) + 2 * BoolToInt(Truthy(params.query))
    [] tool = "list_tables" ->
         2 * BoolToInt(Truthy(params.name_filter)) + BoolToInt(params.include_sys # {TRUE})
           + BoolToInt(params.include_extended # {TRUE})
    [] tool = "update_script" -> 2
    [] OTHER -> 0

\* C6: the number of conditions in the encoded query sent by
\* list_catalog_items, list_catalog_categories, list_tables and update_script
\* depends only on which filters are set, never on the content of a value.
C6_QueryConditionsFixed ==
  tool \in {"list_catalog_items", "list_catalog_categories", "list_tables", "update_script"} =>
    \A i \in ReqIdx :
      reqs[i].step \in {"list", "find"} /\ reqs[i].query # {}
        => NumConditions(The(reqs[i].query)) = ExpectedConditions

ResolverSteps == {"resolve", "variables_resolve", "resolve_category", "resolve_item"}

NameFieldOf(table) == IF table = "sc_category" THEN "title" ELSE "name"

\* the identifier given to the resolver call that issued request i
RecordIdOf(i) ==
  CASE reqs[i].step = "resolve" ->
         IF tool = "get_catalog_item" THEN params.item_id ELSE params.category_id
    [] reqs[i].step = "resolve_category" -> params.target_category_id
    [] reqs[i].step = "variables_resolve" -> loc.rec.sys_id
    [] reqs[i].step = "resolve_item" ->
         params.item_ids[Cardinality({j \in 1..i : reqs[j].step = "resolve_item"})]

\* C7: the resolver routes on the identifier's shape: for a 32-character
\* hexadecimal identifier its one request is a direct fetch by identifier
\* with no query; for any other identifier it is a query on the table for
\* name_field = identifier; a successful resolution carries a record.
C7_ResolverRoutesOnShape ==
  /\ \A i \in ReqIdx :
       reqs[i].step \in ResolverSteps =>
         LET rid == RecordIdOf(i)
         IN /\ reqs[i].method = "GET"
            /\ IF IsSysId(rid)
               THEN reqs[i].id = rid /\ reqs[i].query = {}
               ELSE /\ reqs[i].id = <<>>
                    /\ reqs[i].query = {<<NameFieldOf(reqs[i].table), "=">> \o rid}
  /\ (loc.res.success => loc.res.has_record)
  /\ (loc.vres.success => loc.vres.has_record)

C7_Witness ==
  /\ tool = "move_catalog_items"
  /\ \E i, j \in ReqIdx :
       /\ reqs[i].step = "resolve_item" /\ reqs[i].id = SysIdA /\ reqs[i].query = {}
       /\ reqs[j].step = "resolve_item" /\ reqs[j].query = {<<"name", "=">> \o Laptop}

\* the last request issued for one of the steps
LastReq(steps) ==
  LET S == {i \in ReqIdx : reqs[i].step \in steps}
  IN CHOOSE i \in S : \A j \in S : j <= i

\* the resolver's result r for the answer a is normalized
Normalized(r, a) ==
  /\ \/ r.success /\ r.has_record /\ r.message = <<>>
     \/ ~r.success /\ ~r.has_record /\ r.message # <<>>
  /\ (a.kind = "ok" /\ a.truthy => r.success)
  /\ (a.kind = "ok" /\ ~a.truthy => ~r.success /\ r.message[1] = "Record not found: ")
  /\ (a.kind # "ok" => ~r.success /\ \E k \in 1..Len(r.message) : r.message[k] = a.text)

\* C8: every resolver call issues a request and returns either success with a
\* record or failure with a message: an answer without a match gives the
\* not-found message, a failed request gives a message carrying the error
\* text, and the tool that called it returns rather than raises.
C8_ResolverNormalized ==
  /\ (loc.res.called =>
        /\ \E i \in ReqIdx : reqs[i].step \in ResolverSteps \ {"variables_resolve"}
        /\ Normalized(loc.res, answers[LastReq(ResolverSteps \ {"variables_resolve"})]))
  /\ (loc.vres.called =>
        /\ CountStep("variables_resolve") = 1
        /\ Normalized(loc.vres, answers[LastReq({"variables_resolve"})]))
  /\ (pc = "done" /\ loc.res.called /\ ~loc.res.success => result.returned)

C8_Witness ==
  /\ tool = "update_catalog_category"
  /\ pc = "done"
  /\ loc.res.called
  /\ ~loc.res.success
  /\ answers[1].kind = "conn"

\* C9: when the resolver fails or finds no record for item_id,
\* get_catalog_item returns success = false, the message
\* 'Catalog item not found: <item_id>' and no data, and issues no request
\* for the item's variables.
C9_ItemNotFound ==
  tool = "get_catalog_item" /\ loc.res.called /\ ~Resolved(loc.res) =>
    /\ pc = "done"
    /\ result.returned
    /\ ~result.success
    /\ result.message = <<"Catalog item not found: ">> \o params.item_id
    /\ result.data.isNone
    /\ \A i \in ReqIdx : reqs[i].step \notin {"variables_resolve", "variables"}

C9_Witness ==
  /\ tool = "get_catalog_item"
  /\ pc = "done"
  /\ params.item_id = Laptop
  /\ loc.res.called
  /\ ~Resolved(loc.res)
  /\ answers[1].kind = "ok"

\* C10: when the GET of list_catalog_items (list_catalog_categories) raises a
\* RequestException the result has success false, the message
\* 'Failed to list catalog items: <error text>' ('Failed to list catalog
\* categories: <error text>') and a data mapping holding the empty list and total 0.
C10_ListFailureEnvelope ==
  tool \in {"list_catalog_items", "list_catalog_categories"} /\ pc = "done"
    /\ answers[1].kind # "ok" =>
      /\ result.returned
      /\ ~result.success
      /\ result.message =
           <<IF tool = "list_catalog_items" THEN "Failed to list catalog items: "
             ELSE "Failed to list catalog categories: ", answers[1].text>>
      /\ ~result.data.isNone
      /\ {IF tool = "list_catalog_items" THEN "items" ELSE "categories", "total"}
           \subseteq result.data.keys
      /\ result.rows = <<>>
      /\ result.n = 0

\* the condition a filter adds when it applies
Condition(applies, chunks) == IF applies THEN <<chunks>> ELSE <<>>

\* the list request the claim describes, with "set" read as given by IsSet
ListRequestAsClaimed(IsSet(_)) ==
  LET items == tool = "list_catalog_items"
      q == IF IsSet(params.query) THEN The(params.query) ELSE <<>>
      conditions ==
        Condition(params.active, <<"active=true">>)
          \o (IF items
              THEN Condition(IsSet(params.category),
                             <<"category=">> \o (IF IsSet(params.category)
                                                 THEN The(params.category) ELSE <<>>))
              ELSE <<>>)
          \o Condition(IsSet(params.query),
                       IF items
                       THEN <<"short_descriptionLIKE">> \o q \o <<"^", "ORnameLIKE">> \o q
                       ELSE <<"titleLIKE">> \o q \o <<"^", "ORdescriptionLIKE">> \o q)
  IN /\ Len(reqs) = 1
     /\ reqs[1].method = "GET"
     /\ reqs[1].table = (IF items THEN "sc_cat_item" ELSE "sc_category")
     /\ reqs[1].id = <<>>
     /\ reqs[1].lim = {params.limit}
     /\ reqs[1].off = {params.offset}
     /\ reqs[1].query = (IF conditions = <<>> THEN {} ELSE {Join(conditions, <<"^">>)})

IsNotNone(opt) == opt # {}

\* C11 as stated: list_catalog_items (list_catalog_categories) issues one GET
\* on sc_cat_item (sc_category) with the limit and offset given and the query
\* that joins with '^', in this order, active=true iff active, category=<c>
\* iff category is set, and the LIKE pair iff query is set; the query is
\* omitted iff none applies.
C11_ListQueryWhenSet ==
  tool \in {"list_catalog_items", "list_catalog_categories"} => ListRequestAsClaimed(IsNotNone)

\* C11 amended: the same, with the category and query conditions present iff
\* the parameter is a non-empty string (an empty string adds no condition).
C11_ListQueryWhenNonEmpty ==
  tool \in {"list_catalog_items", "list_catalog_categories"} => ListRequestAsClaimed(Truthy)

C11_Witness ==
  /\ tool = "list_catalog_items"
  /\ pc = "done"
  /\ params.active
  /\ params.category = {<<"h", "w">>}
  /\ params.query = {<<"h", "w">>}
  /\ reqs[1].query = {<<"active=true", "^", "category=", "h", "w", "^", "short_descriptionLIKE",
                        "h", "w", "^", "ORnameLIKE", "h", "w">>}

\* the target category and every entry resolved to a record with a sys_id and
\* every PATCH succeeded
MoveAllSucceeded ==
  /\ tool = "move_catalog_items"
  /\ pc = "done"
  /\ \A i \in ReqIdx :
       /\ answers[i].kind = "ok"
       /\ (reqs[i].step \in ResolverSteps => answers[i].truthy /\ answers[i].first # <<>>)

\* C12: when the target category and every entry of item_ids resolve and
\* every PATCH succeeds, move_catalog_items issues after each entry's lookup,
\* in list order, one PATCH to sc_cat_item/<the sys_id that lookup resolved>
\* with body category = <the resolved target sys_id>, and returns
\* success = true with moved_items_count = the length of item_ids.
C12_MoveAllItems ==
  MoveAllSucceeded =>
    LET n == Len(params.item_ids)
    IN /\ Len(reqs) = 1 + 2 * n
       /\ CountStep("patch_item") = n
       /\ \A k \in 1..n :
            /\ reqs[2 * k].step = "resolve_item"
            /\ \/ reqs[2 * k].id = params.item_ids[k]
               \/ reqs[2 * k].query = {<<"name", "=">> \o params.item_ids[k]}
            /\ reqs[2 * k + 1].step = "patch_item"
            /\ reqs[2 * k + 1].method = "PATCH"
            /\ reqs[2 * k + 1].table = "sc_cat_item"
            /\ reqs[2 * k + 1].id = answers[2 * k].first
            /\ reqs[2 * k + 1].body = {[category |-> answers[1].first]}
       /\ result.returned
       /\ result.success
       /\ "moved_items_count" \in result.data.keys
       /\ result.n = n

C12_Witness ==
  /\ MoveAllSucceeded
  /\ params.item_ids = <<SysIdA, Laptop>>
  /\ answers[2].first = Item1
  /\ answers[4].first = SysIdA
  /\ answers[1].first = SysIdA
  /\ result.n = MaxItems

\* C13: update_script with a supported script_type first issues one GET on
\* the mapped table with query name=<script_id>^ORsys_id=<script_id>; it
\* issues its one PATCH, to <table>/<sys_id of the first row>, only after
\* that GET succeeded with at least one row; when the GET returns no rows it
\* issues no PATCH and returns success = false, updated = false and the
\* message 'No <script_type> found with name or ID: <script_id>'.
C13_UpdateScriptSteps ==
  tool = "update_script" /\ params.script_type \in ScriptTypes =>
    /\ Len(reqs) \in {1, 2}
    /\ reqs[1].method = "GET"
    /\ reqs[1].table = ScriptTable(params.script_type)
    /\ reqs[1].id = <<>>
    /\ reqs[1].query = {<<"name=">> \o params.script_id \o <<"^", "ORsys_id=">> \o params.script_id}
    /\ (Len(reqs) = 2 =>
          /\ answers[1].kind = "ok"
          /\ answers[1].truthy
          /\ answers[1].first # <<>>
          /\ reqs[2].method = "PATCH"
          /\ reqs[2].table = ScriptTable(params.script_type)
          /\ reqs[2].id = answers[1].first)
    /\ (pc = "done" /\ result.success => Len(reqs) = 2 /\ result.updated)
    /\ (answers[1].kind = "ok" /\ ~answers[1].truthy =>
          /\ pc = "done"
          /\ Len(reqs) = 1
          /\ result.returned
          /\ ~result.success
          /\ "updated" \in result.keys
          /\ ~result.updated
          /\ result.message = <<"No ", params.script_type, " found with name or ID: ">>
                                \o params.script_id)

C13_Witness ==
  /\ tool = "update_script"
  /\ pc = "done"
  /\ params.script_id = Laptop
  /\ Len(reqs) = 2
  /\ reqs[2].id = SysIdA
  /\ result.success

\* the query starts with 'update' and has a table word and a record word
ParsesAsUpdate(query) ==
  LET ws == Words(query)
  IN Len(ws) >= 3 /\ Lower(ws[1]) = <<"u", "p", "d", "a", "t", "e">>

SaysSomething(query) == \E k \in 1..Len(Words(query)) : Lower(Words(query)[k]) = W_saying

\* C14: natural_language_update issues a request only for a query that
\* parses as 'update <table> <record_id> <changes>' and yields a change: a
\* query that does not parse gives success = false, updated = false and the
\* 'Could not parse update command' message, a parsed query without a change
\* gives success = false, updated = false, both with no request; otherwise
\* it issues one PATCH to <table in lower case>/<record_id> whose body is
\* the parsed changes, the single key comments when the query has 'saying'.
C14_UpdateOnlyWhenParsed ==
  tool = "natural_language_update" =>
    LET q == params.query
        ws == Words(q)
    IN /\ pc = "done"
       /\ result.returned
       /\ "updated" \in result.keys
       /\ Len(reqs) <= 1
       /\ (reqs # <<>> <=> ParsesAsUpdate(q) /\ Changes(q) # {})
       /\ (~ParsesAsUpdate(q) =>
             /\ ~result.success
             /\ ~result.updated
             /\ result.message[1] = "Could not parse update command")
       /\ (reqs = <<>> => ~result.success /\ ~result.updated)
       /\ (reqs # <<>> =>
             /\ reqs[1].method = "PATCH"
             /\ reqs[1].table = Lower(ws[2])
             /\ reqs[1].id # <<>>
             /\ reqs[1].id = PrefixIn(ws[3], AlnumChars)
             /\ reqs[1].body = {Changes(q)}
             /\ (SaysSomething(q) =>
                   /\ Cardinality(Changes(q)) = 1
                   /\ \A c \in Changes(q) : c[1] = "comments"))

C14_Witness ==
  /\ tool = "natural_language_update"
  /\ pc = "done"
  /\ Len(reqs) = 1
  /\ reqs[1].table = <<"i", "n", "c", "i", "d", "e", "n", "t">>
  /\ reqs[1].id = W_inc1
  /\ reqs[1].body = {{<<"comments", W_hi>>}}
  /\ result.updated

\* the words of the lower-cased query that are longer than 3 characters
LongWords(query) == SelectSeq(Words(Lower(query)), LAMBDA w : Len(w) > 3)

\* 'LIKE<w1>^ORLIKE<w2>...' for the words ws
LikeAny(ws) == Join([i \in 1..Len(ws) |-> <<"LIKE">> \o ws[i]], <<"^", "OR">>)

\* C15: natural_language_search sends, and on success reports as query_used,
\* the '^OR'-join of 'LIKE<w>' for each word of the lower-cased query longer
\* than 3 characters, in order and with repeats; with no such word it
\* returns success = false and 'No valid search terms found in the query'
\* without a request, otherwise it issues exactly one GET on the table.
C15_SearchQuery ==
  tool = "natural_language_search" =>
    LET long == LongWords(params.query)
    IN /\ pc = "done"
       /\ result.returned
       /\ (long = <<>> =>
             /\ reqs = <<>>
             /\ ~result.success
             /\ result.message = <<"No valid search terms found in the query">>)
       /\ (long # <<>> =>
             /\ Len(reqs) = 1
             /\ reqs[1].method = "GET"
             /\ reqs[1].table = params.table
             /\ reqs[1].id = <<>>
             /\ reqs[1].query = {LikeAny(long)}
             /\ (result.success =>
                   "query_used" \in result.keys /\ result.query_used = LikeAny(long)))

C15_Witness ==
  /\ tool = "natural_language_search"
  /\ pc = "done"
  /\ params.query = W_sap \o <<" ">> \o W_mails
  /\ result.success
  /\ result.query_used = <<"LIKE", "m", "a", "i", "l", "s">>

\* the body fields the parameters ps supply: a string parameter as given,
\* active as 'true'/'false', order as a decimal string; absent when None
SuppliedBody(title, ps, active) ==
  [title |-> title, description |-> ps.description, parent |-> ps.parent, icon |-> ps.icon,
   active |-> IF active = {} THEN {} ELSE IF active = {TRUE} THEN {<<"true">>} ELSE {<<"false">>},
   order |-> {<<ToString(n)>> : n \in ps.order}]

\* C16: the body update_catalog_category sends holds exactly the fields
\* whose parameter is not None (active as 'true'/'false', order as a decimal
\* string); the body create_catalog_category sends always holds title and
\* holds each optional field under the same rule.
C16_CategoryBodies ==
  /\ (tool = "update_catalog_category" =>
        \A i \in ReqIdx :
          reqs[i].step = "patch" =>
            /\ reqs[i].method = "PATCH"
            /\ reqs[i].body = {SuppliedBody(params.title, params, params.active)})
  /\ (tool = "create_catalog_category" =>
        /\ Len(reqs) = 1
        /\ reqs[1].method = "POST"
        /\ reqs[1].body = {SuppliedBody({params.title}, params, {params.active})})

C16_Witness ==
  /\ tool = "update_catalog_category"
  /\ Len(reqs) = 2
  /\ params.title = {}
  /\ params.description = {<<>>}
  /\ params.order = {0}
  /\ params.active = {FALSE}
  /\ reqs[2].body = {[title |-> {}, description |-> {<<>>}, parent |-> {}, icon |-> {},
                      active |-> {<<"false">>}, order |-> {<<"0">>}]}

\* C17: update_catalog_category resolves category_id first and sends its
\* single PATCH only after a successful resolution, to
\* sc_category/<resolved sys_id>; when the category is not resolved it sends no
\* PATCH and returns success=false, 'Catalog category not found:
\* <category_id>' and data None.
C17_UpdateCategoryResolvesFirst ==
  tool = "update_catalog_category" =>
    /\ reqs[1].step = "resolve"
    /\ reqs[1].method = "GET"
    /\ reqs[1].table = "sc_category"
    /\ \A i \in ReqIdx :
         reqs[i].method = "PATCH" =>
           /\ i = 2
           /\ answers[1].truthy
           /\ reqs[i].table = "sc_category"
           /\ reqs[i].id = answers[1].first
    /\ Len(reqs) <= 2
    /\ (pc = "done" /\ ~answers[1].truthy =>
          /\ Len(reqs) = 1
          /\ result.returned
          /\ ~result.success
          /\ result.message = <<"Catalog category not found: ">> \o params.category_id
          /\ result.data = NoData)

C17_Witness ==
  /\ tool = "update_catalog_category"
  /\ pc = "done"
  /\ params.category_id = <<"H", "w">>
  /\ Len(reqs) = 2
  /\ reqs[2].method = "PATCH"
  /\ reqs[2].id = answers[1].first
  /\ reqs[2].id # params.category_id

\* the one request get_records sends according to the claim, where
\* OrderBySet(order_by) says when order_by counts as set
GetRecordsRequestAsClaimed(OrderBySet(_)) ==
  /\ Len(reqs) = 1
  /\ reqs[1].method = "GET"
  /\ reqs[1].table = params.table_name
  /\ reqs[1].id = <<>>
  /\ reqs[1].query = (IF params.query \notin {{}, {<<>>}} THEN params.query ELSE {})
  /\ reqs[1].lim = {params.limit}
  /\ reqs[1].off = {params.offset}
  /\ params.limit \in 1..1000
  /\ params.offset >= 0
  /\ \A f \in reqs[1].extra : f[1] \in {"sysparm_fields", "sysparm_order_by"}
  /\ \A f \in reqs[1].extra, g \in reqs[1].extra : f[1] = g[1] => f = g
  /\ (\E f \in reqs[1].extra : f[1] = "sysparm_fields") <=> params.fields \notin {{}, {<<>>}}
  /\ \A f \in reqs[1].extra :
       f[1] = "sysparm_fields" => f[2] = Join(The(params.fields), <<",">>)
  /\ (\E f \in reqs[1].extra : f[1] = "sysparm_order_by") <=> OrderBySet(params.order_by)
  /\ \A f \in reqs[1].extra :
       f[1] = "sysparm_order_by" =>
         f[2] = IF params.order_direction = "asc" THEN The(params.order_by)
                ELSE The(params.order_by) \o <<"DESC">>

\* C18 as stated: get_records issues exactly one GET to <table_name> with
\* sysparm_query iff query is non-empty, sysparm_fields iff fields is
\* non-empty, sysparm_limit and sysparm_offset as given and within range, and
\* sysparm_order_by iff order_by is set (not None).
C18_GetRecordsRequestWhenSet ==
  tool = "get_records" => GetRecordsRequestAsClaimed(IsNotNone)

\* C18 amended: as stated, with sysparm_order_by present iff order_by is a
\* non-empty string, equal to order_by for 'asc' and to order_by followed by
\* 'DESC' for 'desc'.
C18_GetRecordsRequestWhenNonEmpty ==
  tool = "get_records" => GetRecordsRequestAsClaimed(Truthy)

C18_Witness ==
  /\ tool = "get_records"
  /\ params.order_by = {<<"number">>}
  /\ params.order_direction = "desc"
  /\ params.fields = {<< <<"number">>, <<"short_description">> >>}
  /\ params.limit = 1000
  /\ <<"sysparm_order_by", <<"number", "DESC">>>> \in reqs[1].extra
  /\ <<"sysparm_fields", <<"number", ",", "short_description">>>> \in reqs[1].extra

\* the total the server reports with answer a, if any
ReportedTotal(a) == a.httpTotal \cup a.bodyTotal

\* C19: on success get_records and list_tables return count equal to the
\* total the server reports (x-total-count) whenever it reports one, and to
\* the number of rows in the response otherwise, and they echo the request's
\* offset and limit.
C19_CountIsReportedTotal ==
  tool \in {"get_records", "list_tables"} /\ pc = "done" /\ result.returned /\ result.success =>
    /\ result.n = IF ReportedTotal(answers[1]) # {} THEN The(ReportedTotal(answers[1]))
                  ELSE Len(result.rows)
    /\ result.limit = {params.limit}
    /\ result.offset = {params.offset}

\* a successful get_table_schema
SchemaSucceeded ==
  tool = "get_table_schema" /\ pc = "done" /\ result.returned /\ result.success

\* the two requests of a successful get_table_schema and the name in its result
SchemaRequestsAsClaimed ==
  /\ Len(reqs) = 2
  /\ reqs[1].method = "GET"
  /\ reqs[1].table = "sys_db_object"
  /\ reqs[1].query = {<<"name=">> \o params.table_name}
  /\ reqs[2].method = "GET"
  /\ reqs[2].table = "sys_dictionary"
  /\ reqs[2].query = {IF params.include_all_fields THEN <<"name=">> \o params.table_name
                      ELSE <<"name=">> \o params.table_name \o <<"^", "column_label!=">>}
  /\ result.name = answers[1].rows[1].name

\* the dictionary rows returned that have a non-empty element
ElementRows == {i \in 1..Len(answers[2].rows) : answers[2].rows[i].element \notin {{}, {<<>>}}}

\* C20 as stated: a successful get_table_schema issues the two GETs in order
\* and its result has the table's name and, for every returned dictionary row
\* with a non-empty element, one fields entry keyed by that element whose
\* mandatory and read_only are true exactly when the row's value is the
\* string 'true'.
C20_SchemaEntryPerRow ==
  SchemaSucceeded =>
    /\ SchemaRequestsAsClaimed
    /\ \A f \in result.fields : \E i \in ElementRows : answers[2].rows[i].element = {f.name}
    /\ \A i \in ElementRows :
         LET row == answers[2].rows[i]
         IN /\ Cardinality({f \in result.fields : {f.name} = row.element}) = 1
            /\ \A f \in result.fields :
                 {f.name} = row.element =>
                   /\ f.mandatory <=> row.mandatory = {<<"t", "r", "u", "e">>}
                   /\ f.read_only <=> row.read_only = {<<"t", "r", "u", "e">>}

\* the value reads 'true' whatever the case of its letters
ReadsTrue(opt) ==
  \E s \in opt :
    /\ Len(s) = 4
    /\ s[1] \in {"t", "T"}
    /\ s[2] \in {"r", "R"}
    /\ s[3] \in {"u", "U"}
    /\ s[4] \in {"e", "E"}

\* C20 amended: a successful get_table_schema issues the two GETs in order
\* and its result has the table's name and one fields entry for every
\* distinct non-empty element among the returned dictionary rows, whose
\* mandatory and read_only are true exactly when the value in the last row
\* with that element is, ignoring case, the string 'true'.
C20_SchemaEntryPerElement ==
  SchemaSucceeded =>
    /\ SchemaRequestsAsClaimed
    /\ \A f \in result.fields : \E i \in ElementRows : answers[2].rows[i].element = {f.name}
    /\ \A i \in ElementRows :
         LET row == answers[2].rows[i]
         IN /\ Cardinality({f \in result.fields : {f.name} = row.element}) = 1
            /\ (\A j \in ElementRows : j > i => answers[2].rows[j].element # row.element) =>
                 \A f \in result.fields :
                   {f.name} = row.element =>
                     /\ f.mandatory <=> ReadsTrue(row.mandatory)
                     /\ f.read_only <=> ReadsTrue(row.read_only)

C20_Witness ==
  /\ SchemaSucceeded
  /\ ~params.include_all_fields
  /\ Len(answers[2].rows) = 2
  /\ answers[2].rows[1].element = {<<"number">>}
  /\ answers[2].rows[2].element = {<<"state">>}
  /\ answers[2].rows[2].mandatory = {<<"T", "r", "u", "e">>}
  /\ result.name = <<"incident">>
  /\ result.fields = {[name |-> <<"number">>, mandatory |-> TRUE, read_only |-> FALSE],
                      [name |-> <<"state">>, mandatory |-> TRUE, read_only |-> TRUE]}

\* the requests of get_catalog_item_variables: its resolver call and its GET
VarResolveIdx == {i \in ReqIdx : reqs[i].step = "variables_resolve"}
VarReqIdx == {i \in ReqIdx : reqs[i].step = "variables"}

\* the order value of the row is one that int() rejects
OrderNotInt(row) ==
  /\ row.order # {}
  /\ \/ row.order = {<<>>}
     \/ \E s \in row.order : \E i \in 1..Len(s) :
          s[i] \notin {"0", "1", "2", "3", "4", "5", "6", "7", "8", "9"}

\* C21: get_catalog_item_variables never raises: when the item is not
\* resolved, a request fails or processing the response fails it returns the
\* empty list; its variables request, when issued, is one GET on
\* item_option_new with the query 'cat_item=<resolved sys_id>^ORDERBYorder'.
C21_VariablesNeverRaise ==
  /\ ~loc.vars.raised
  /\ Cardinality(VarReqIdx) <= 1
  /\ \A i \in VarReqIdx :
       /\ i - 1 \in VarResolveIdx
       /\ answers[i - 1].truthy
       /\ reqs[i].method = "GET"
       /\ reqs[i].table = "item_option_new"
       /\ reqs[i].id = <<>>
       /\ reqs[i].query = {<<"cat_item=">> \o answers[i - 1].first \o <<"^", "ORDERBYorder">>}
  /\ (loc.vars.called =>
        /\ VarResolveIdx # {}
        /\ \A i \in VarResolveIdx :
             ~answers[i].truthy => VarReqIdx = {} /\ loc.vars.value = <<>>
        /\ \A i \in VarReqIdx :
             /\ (answers[i].kind # "ok" => loc.vars.value = <<>>)
             /\ ((\E k \in 1..Len(answers[i].rows) : OrderNotInt(answers[i].rows[k]))
                   => loc.vars.value = <<>>))

C21_Witness ==
  /\ loc.vars.called
  /\ loc.vars.value = <<>>
  /\ \E i \in VarReqIdx :
       /\ answers[i].kind = "ok"
       /\ Len(answers[i].rows) = 2
       /\ answers[i].rows[2].order = {<<>>}
       /\ reqs[i].query = {<<"cat_item=">> \o Item1 \o <<"^", "ORDERBYorder">>}

C23_SchemaTableNotFound ==
  tool = "get_table_schema" /\ answers # <<>> /\ answers[1].kind = "ok"
    /\ answers[1].shape = "list" /\ answers[1].rows = <<>> =>
      /\ pc = "done"
      /\ Len(reqs) = 1
      /\ result.returned
      /\ ~result.success
      /\ "error" \in result.keys
      /\ result.message = <<"Table not found: ">> \o params.table_name

\* the entry of item_ids that the lookup request i is for
EntryOf(i) == Cardinality({j \in 1..i : reqs[j].step = "resolve_item"})

\* C24: move_catalog_items PATCHes an item only after the target category and
\* that item were resolved in this invocation; with the category unresolved it
\* issues no lookup and no PATCH and returns success=false with 'Target
\* category not found: <target_category_id>'; an item whose lookup fails is
\* recorded in failed_items with 'Item not found' and is never PATCHed.
C24_MovePatchAfterResolution ==
  tool = "move_catalog_items" =>
    /\ reqs[1].step = "resolve_category"
    /\ \A i \in ReqIdx :
         reqs[i].step \in {"resolve_item", "patch_item"} => answers[1].kind = "ok" /\ answers[1].truthy
    /\ \A i \in ReqIdx :
         reqs[i].step = "patch_item" =>
           /\ i > 1
           /\ reqs[i - 1].step = "resolve_item"
           /\ answers[i - 1].kind = "ok"
           /\ answers[i - 1].truthy
           /\ reqs[i].id = answers[i - 1].first
    /\ (pc = "done" /\ ~answers[1].truthy =>
          /\ Len(reqs) = 1
          /\ result.returned
          /\ ~result.success
          /\ result.message = <<"Target category not found: ">> \o params.target_category_id)
    /\ \A i \in ReqIdx :
         reqs[i].step = "resolve_item" /\ ~answers[i].truthy =>
           /\ (i < Len(reqs) => reqs[i + 1].step = "resolve_item")
           /\ \E j \in 1..Len(loc.failed_items) :
                loc.failed_items[j] =
                  [item_id |-> params.item_ids[EntryOf(i)], error |-> "Item not found"]

C24_Witness ==
  /\ tool = "move_catalog_items"
  /\ pc = "done"
  /\ params.item_ids = <<Laptop, SysIdA>>
  /\ Len(reqs) = 4
  /\ ~answers[2].truthy
  /\ reqs[4].step = "patch_item"
  /\ loc.failed_items = <<[item_id |-> Laptop, error |-> "Item not found"]>>

\* the loop of move_catalog_items was entered: the target category resolved
\* to a record with a sys_id
MoveLoopEntered ==
  tool = "move_catalog_items" /\ answers[1].kind = "ok" /\ answers[1].truthy
    /\ answers[1].first # <<>>

\* C25: in move_catalog_items a failed entry does not stop the loop: in the
\* loop the successful PATCHes and the failed_items entries add up to the
\* entries processed, every entry is attempted, and on return
\* moved_items_count + len(failed_items) = len(item_ids).
C25_MoveLoopAccounts ==
  MoveLoopEntered =>
    /\ (pc \in {"move_loop", "move_patch"} =>
          loc.success_count + Len(loc.failed_items) = loc.i - 1)
    /\ (pc = "done" =>
          /\ CountStep("resolve_item") = Len(params.item_ids)
          /\ result.returned
          /\ result.n + Len(result.rows) = Len(params.item_ids)
          /\ result.n = CountStep("patch_item")
                          - Cardinality({i \in ReqIdx : reqs[i].step = "patch_item"
                                                          /\ answers[i].kind # "ok"}))

\* C26: whenever move_catalog_items returns success=false, no PATCH of the
\* invocation succeeded.
C26_MoveFailureChangesNothing ==
  tool = "move_catalog_items" /\ pc = "done" /\ result.returned /\ ~result.success =>
    \A i \in ReqIdx : reqs[i].step = "patch_item" => answers[i].kind # "ok"

\* C27: whenever move_catalog_items returns success=true, at least one PATCH
\* of the invocation succeeded, for every item_ids list, the empty one included.
C27_MoveSuccessChangesSomething ==
  tool = "move_catalog_items" /\ pc = "done" /\ result.returned /\ result.success =>
    \E i \in ReqIdx : reqs[i].step = "patch_item" /\ answers[i].kind = "ok"

\* how often the row occurs in the list
Occurrences(rows, row) == Cardinality({k \in 1..Len(rows) : rows[k] = row})

\* the decimal digits of n
RECURSIVE Decimal(_)
Decimal(n) == IF n < 10 THEN <<ToString(n)>> ELSE Append(Decimal(n \div 10), ToString(n % 10))

\* the numeric value of an order made of decimal digits (0 when there is none)
NumericOrder(row) ==
  IF row.order = {} THEN 0 ELSE CHOOSE n \in 0..999 : Decimal(n) = The(row.order)

\* C28: whenever the item resolves and the item_option_new GET succeeds,
\* get_catalog_item_variables returns exactly one entry for every row of the
\* response, in non-decreasing numeric order of the rows' order values, and
\* drops no row whatever its order value is.
C28_VariablesAllReturnedInOrder ==
  loc.vars.called =>
    \A i \in VarReqIdx :
      answers[i].kind = "ok" =>
        /\ Len(loc.vars.value) = Len(answers[i].rows)
        /\ \A k \in 1..Len(answers[i].rows) :
             Occurrences(loc.vars.value, answers[i].rows[k])
               = Occurrences(answers[i].rows, answers[i].rows[k])
        /\ \A j, k \in 1..Len(loc.vars.value) :
             j < k /\ ~OrderNotInt(loc.vars.value[j]) /\ ~OrderNotInt(loc.vars.value[k]) =>
               NumericOrder(loc.vars.value[j]) <= NumericOrder(loc.vars.value[k])

\* C29: a failure while fetching or processing the variables never fails
\* get_catalog_item: whenever the item resolves, it returns success=true with
\* the item and with variables equal to the list get_catalog_item_variables
\* returned, the empty list when the variables request failed.
C29_ItemDespiteVariables ==
  tool = "get_catalog_item" /\ pc = "done" /\ answers[1].kind = "ok" /\ answers[1].truthy =>
    /\ result.returned
    /\ result.success
    /\ "item" \in result.data.keys
    /\ loc.vars.called
    /\ result.rows = loc.vars.value
    /\ \A i \in VarReqIdx : answers[i].kind # "ok" => result.rows = <<>>

\* the sysparm_query list_tables sends according to the claim, where
\* FilterSet says when name_filter counts as set and Excluded when a flag
\* asks for its exclusion
ListTablesQueryAsClaimed(FilterSet(_), Excluded(_)) ==
  LET conds == (IF FilterSet(params.name_filter)
                THEN <<<<"nameLIKE">> \o The(params.name_filter) \o <<"^", "ORlabelLIKE">>
                         \o The(params.name_filter)>>
                ELSE <<>>)
                 \o (IF Excluded(params.include_sys) THEN <<<<"nameNOT LIKEsys_">>>> ELSE <<>>)
                 \o (IF Excluded(params.include_extended) THEN <<<<"nameNOT LIKEZZ_">>>> ELSE <<>>)
  IN /\ Len(reqs) = 1
     /\ reqs[1].table = "sys_db_object"
     /\ (reqs[1].query = {} <=> conds = <<>>)
     /\ (conds # <<>> =>
           /\ reqs[1].query = {Join(conds, <<"^">>)}
           /\ \A q \in reqs[1].query : q[1] # "^" /\ q[Len(q)] # "^")

IsFalse(opt) == opt = {FALSE}

====
